---- MODULE Spec2Model ----
(***************************************************************************)
(* RecoverTask (imteksimfw/fireworks/user_objects/firetasks/               *)
(* recover_tasks.py): the recovery task that splices restart, detour and   *)
(* addition fragments into a running workflow, together with the helpers   *)
(* dict_merge, from_fw_spec and apply_mod_spec.                            *)
(*                                                                         *)
(* Python values are tagged one-field records: [int |-> 3], [str |-> "a"], *)
(* [bool |-> TRUE], [list |-> <<...>>], [dict |-> f] with f a function     *)
(* from key strings to tagged values, and [none |-> TRUE] for None.        *)
(***************************************************************************)
EXTENDS Integers, Sequences, FiniteSets, TLC

\* ------------------------------------------------------------------ values

IntV(n) == [int |-> n]
StrV(s) == [str |-> s]
BoolV(b) == [bool |-> b]
ListV(l) == [list |-> l]
DictV(f) == [dict |-> f]
NoneV == [none |-> TRUE]
TrueV == BoolV(TRUE)

\* An exception escaping a call, carried as a value.
Raise(e) == [error |-> e]

IsInt(v) == DOMAIN v = {"int"}
IsDict(v) == DOMAIN v = {"dict"}
IsList(v) == DOMAIN v = {"list"}
IsNone(v) == DOMAIN v = {"none"}
IsError(v) == DOMAIN v = {"error"}

EmptyDict == <<>>

\* d restricted to the keys in ks.
Restrict(d, ks) == [k \in (DOMAIN d) \cap ks |-> d[k]]

\* d with d[k] = v (Python's d[k] = v).
SetKey(d, k, v) == [j \in (DOMAIN d) \cup {k} |-> IF j = k THEN v ELSE d[j]]

\* d.get(k), None when absent.
GetOrNone(d, k) == IF k \in DOMAIN d THEN d[k] ELSE NoneV

\* ------------------------------------------------------------- dict_merge

\* Variant of overlay_to_merge that adds the overlay's new keys whatever
\* add_keys says.
overlay_to_merge_adding_keys(dct, merge_dct, add_keys) == merge_dct

\* Lines 106-108: without add_keys only the overlay's keys that the base
\* mapping holds as well are merged.
overlay_to_merge(dct, merge_dct, add_keys) ==
    IF add_keys THEN merge_dct ELSE Restrict(merge_dct, DOMAIN dct)

\* Variant of excluded_from_merge that lets a non-mapping overlay value through.
excluded_from_merge_never(merge_exclusions, k) == FALSE

\* Lines 139-143: an overlay value that is not merged recursively is assigned
\* only when merge_exclusions does not hold its key.
excluded_from_merge(merge_exclusions, k) == k \in DOMAIN merge_exclusions

\* Variant of assigned_value that extends a list of the base mapping by the
\* overlay's list.
assigned_value_extending_lists(old, v) ==
    IF IsList(old) /\ IsList(v) THEN ListV(old.list \o v.list) ELSE v

\* Variant of assigned_value that does not let a plain overlay value replace
\* a mapping of the base.
assigned_value_keeping_mappings(old, v) ==
    IF IsDict(old) /\ ~IsDict(v) THEN old ELSE v

\* Line 141: dct[k] = v replaces whatever the base mapping held (old is None
\* for a new key).
assigned_value(old, v) == v

RECURSIVE dict_merge(_, _, _, _, _)
\* dct, merge_dct: raw mappings.  exclusions, merge_exclusions: tagged values
\* (a mapping, or whatever a nested entry of the caller's map holds, such as
\* True).  The result is DictV(merged), or Raise("TypeError") where Python's
\* `for k in exclusions` / `k in merge_exclusions` meets a non-iterable.
dict_merge(dct, merge_dct, add_keys, exclusions, merge_exclusions) ==
    IF ~IsDict(exclusions) THEN Raise("TypeError")
    ELSE
    LET excl == exclusions.dict
        \* lines 101-104: a key of exclusions is deleted when dct[k] is True
        dct1 == Restrict(dct, {k \in DOMAIN dct :
                                 ~(k \in DOMAIN excl /\ dct[k] = TrueV)})
        \* lines 106-108
        md1 == overlay_to_merge(dct1, merge_dct, add_keys)
        \* lines 113-115
        md2 == [k \in (DOMAIN md1) \cup {j \in DOMAIN dct1 : IsDict(dct1[j])} |->
                   IF k \in DOMAIN md1 THEN md1[k] ELSE DictV(EmptyDict)]
    IN
    IF DOMAIN md2 # {} /\ ~IsDict(merge_exclusions) THEN Raise("TypeError")
    ELSE
    LET mex == IF IsDict(merge_exclusions) THEN merge_exclusions.dict
               ELSE EmptyDict
        lower(k) == IF k \in DOMAIN excl THEN excl[k] ELSE DictV(EmptyDict)
        both(k) == k \in DOMAIN dct1 /\ IsDict(dct1[k]) /\ IsDict(md2[k])
        \* the value the loop body of lines 117-143 leaves at k;
        \* NoneV stands for "k not assigned"
        entry(k) ==
            IF both(k)
            THEN IF k \notin DOMAIN mex
                 THEN dict_merge(dct1[k].dict, md2[k].dict, add_keys,
                                 lower(k), DictV(EmptyDict))
                 ELSE IF mex[k] # TrueV
                 THEN dict_merge(dct1[k].dict, md2[k].dict, add_keys,
                                 lower(k), mex[k])
                 ELSE dct1[k]
            ELSE IF ~excluded_from_merge(mex, k)
                 THEN assigned_value(GetOrNone(dct1, k), md2[k])
                 ELSE IF k \in DOMAIN dct1 THEN dct1[k] ELSE NoneV
        assigned == {k \in DOMAIN md2 :
                        both(k) \/ ~excluded_from_merge(mex, k) \/ k \in DOMAIN dct1}
    IN
    IF \E k \in DOMAIN md2 : both(k) /\ IsError(entry(k))
    THEN Raise("TypeError")
    ELSE DictV([k \in (DOMAIN dct1) \cup assigned |->
                  IF k \in DOMAIN md2 THEN entry(k) ELSE dct1[k]])

\* Variant of dict_merge_args that lets the merge work on the caller's base
\* mapping itself.
dict_merge_args_in_place(dct, merge_dct, add_keys, exclusions, merge_exclusions) ==
    LET r == dict_merge(dct, merge_dct, add_keys, exclusions, merge_exclusions)
    IN [dct |-> IF IsError(r) THEN dct ELSE r.dict, merge_dct |-> merge_dct]

\* The caller's two mappings as a dict_merge call leaves them.  Lines 89-90
\* rebind both names to copies; every deletion and assignment after that
\* (lines 104, 107, 115, 129, 133, 141) goes to those copies, and a nested
\* mapping is only read or handed to the recursive call, which copies again.
dict_merge_args(dct, merge_dct, add_keys, exclusions, merge_exclusions) ==
    [dct |-> dct, merge_dct |-> merge_dct]

\* -------------------------------------------------- nested values (dict_mods)

\* get_nested_dict_value(d, key) for a one-token key (no "->" in it):
\* the value, or Raise("KeyError").
get_nested_dict_value(d, key) ==
    IF key \in DOMAIN d THEN d[key] ELSE Raise("KeyError")

\* set_nested_dict_value(d, key, val) for a one-token key.
set_nested_dict_value(d, key, val) == SetKey(d, key, val)

\* Python truthiness of a tagged value (`if base_spec:`, `if not dests:`).
Truthy(v) ==
    CASE IsNone(v) -> FALSE
      [] IsDict(v) -> DOMAIN v.dict # {}
      [] IsList(v) -> Len(v.list) > 0
      [] IsInt(v) -> v.int # 0
      [] DOMAIN v = {"bool"} -> v.bool
      [] DOMAIN v = {"str"} -> v.str # ""
      [] OTHER -> TRUE

Last(s) == s[Len(s)]

\* ---------------------------------------------------------------- Workflow

\* A Workflow: fws lists the node ids in insertion order, id_fw maps an id to
\* its Firework [spec, name], links maps an id to the list of its children.
NoWf == [fws |-> <<>>, id_fw |-> <<>>, links |-> <<>>]

SeqToSet(s) == {s[i] : i \in 1..Len(s)}

\* Workflow.leaf_fw_ids: the ids without children, in node order.
leaf_fw_ids(wf) == SelectSeq(wf.fws, LAMBDA i : Len(wf.links[i]) = 0)

\* Workflow.root_fw_ids: the ids that are nobody's child, in node order.
root_fw_ids(wf) ==
    SelectSeq(wf.fws,
              LAMBDA i : \A p \in DOMAIN wf.links : i \notin SeqToSet(wf.links[p]))

\* Workflow.append_wf(new_wf, fw_ids): the nodes and inner links of new_wf are
\* added; every id of fw_ids gets every root of new_wf as a child.
append_wf(wf, new_wf, fw_ids) ==
    LET roots == root_fw_ids(new_wf)
        ids == SeqToSet(wf.fws) \cup SeqToSet(new_wf.fws)
    IN [fws |-> wf.fws \o new_wf.fws,
        id_fw |-> [i \in ids |-> IF i \in SeqToSet(new_wf.fws)
                                 THEN new_wf.id_fw[i] ELSE wf.id_fw[i]],
        links |-> [i \in ids |->
                     IF i \in SeqToSet(new_wf.fws) THEN new_wf.links[i]
                     ELSE IF i \in SeqToSet(fw_ids) THEN wf.links[i] \o roots
                     ELSE wf.links[i]]]

\* int(k) for the keys of a serialised links mapping.
IdOfKey == ("1" :> 1) @@ ("2" :> 2) @@ ("3" :> 3) @@
           ("-1" :> -1) @@ ("-2" :> -2) @@ ("-3" :> -3)

\* Firework.from_dict: spec and name of a serialised Firework.
FireworkFromDict(d) == [spec |-> d["spec"].dict, name |-> d["name"].str]

\* ------------------------------------------------ appendable_wf_from_dict

\* The spec a node gets: dict_merge(base_spec, spec, exclusions) when
\* base_spec is truthy, the described spec otherwise.  Tagged; may be an error.
SuperposedSpec(spec, base_spec, exclusions) ==
    IF Truthy(base_spec)
    THEN dict_merge(base_spec.dict, spec.dict, TRUE, exclusions, DictV(EmptyDict))
    ELSE spec

\* Variant of RemappedWf that substitutes the ids in the links one node after
\* the other, so that an id already handed out is substituted again when a
\* later node was described with it.
RemappedWfOneByOne(fw_dicts, links, next_id) ==
    LET n == Len(fw_dicts)
        old(i) == fw_dicts[i].dict["fw_id"].int
        new(i) == next_id - (i - 1)
        olds == {old(i) : i \in 1..n}
        ids == olds \cup {new(i) : i \in 1..n}
        sub[i \in 0..n, o \in ids] ==
            IF i = 0 THEN o
            ELSE IF sub[i - 1, o] = old(i) THEN new(i) ELSE sub[i - 1, o]
        remap(o) == IF o \in ids THEN sub[n, o] ELSE o
        kids(o) == IF \E k \in DOMAIN links : IdOfKey[k] = o
                   THEN LET k == CHOOSE k \in DOMAIN links : IdOfKey[k] = o
                        IN [j \in 1..Len(links[k].list) |-> remap(links[k].list[j].int)]
                   ELSE <<>>
    IN [fws |-> [i \in 1..n |-> new(i)],
        id_fw |-> [m \in {new(i) : i \in 1..n} |->
                     FireworkFromDict(fw_dicts[next_id - m + 1].dict)],
        links |-> [m \in {remap(o) : o \in olds} |->
                     kids(CHOOSE o \in olds : remap(o) = m)]]

\* Workflow.from_dict followed by the id remapping of lines 464-470: the i-th
\* described node gets id next_id - (i - 1), links are rewritten accordingly.
RemappedWf(fw_dicts, links, next_id) ==
    LET n == Len(fw_dicts)
        old(i) == fw_dicts[i].dict["fw_id"].int
        new(i) == next_id - (i - 1)
        remap(o) == IF \E i \in 1..n : old(i) = o
                    THEN new(CHOOSE i \in 1..n : old(i) = o /\ \A j \in 1..n : old(j) = o => j <= i)
                    ELSE o
        olds == {old(i) : i \in 1..n}
        kids(o) == IF \E k \in DOMAIN links : IdOfKey[k] = o
                   THEN LET k == CHOOSE k \in DOMAIN links : IdOfKey[k] = o
                        IN [j \in 1..Len(links[k].list) |-> remap(links[k].list[j].int)]
                   ELSE <<>>
    IN [fws |-> [i \in 1..n |-> new(i)],
        id_fw |-> [m \in {new(i) : i \in 1..n} |->
                     FireworkFromDict(fw_dicts[next_id - m + 1].dict)],
        links |-> [m \in {remap(o) : o \in olds} |->
                     kids(CHOOSE o \in olds : remap(o) = m)]]

\* appendable_wf_from_dict(self, obj_dict, base_spec, exclusions) with
\* self.consecutive_fw_id = next_id.  Result: error ("" when none), the
\* Workflow, the counter afterwards, and obj_dict as the call leaves it (the
\* superposed specs are assigned into the description itself).
appendable_wf_from_dict(obj_dict, base_spec, exclusions, next_id) ==
    IF ~IsDict(obj_dict)
    THEN [error |-> "ValueError", wf |-> NoWf, next_id |-> next_id, obj |-> obj_dict]
    ELSE IF "spec" \in DOMAIN obj_dict.dict
    THEN LET sp == SuperposedSpec(obj_dict.dict["spec"], base_spec, exclusions)
             obj == DictV(SetKey(obj_dict.dict, "spec", sp))
         IN IF IsError(sp)
            THEN [error |-> sp.error, wf |-> NoWf, next_id |-> next_id,
                  obj |-> obj_dict]
            ELSE [error |-> "",
                  wf |-> [fws |-> <<next_id>>,
                          id_fw |-> (next_id :> FireworkFromDict(obj.dict)),
                          links |-> (next_id :> <<>>)],
                  next_id |-> next_id - 1,
                  obj |-> obj]
    ELSE LET fwl == obj_dict.dict["fws"].list
             sp(i) == SuperposedSpec(fwl[i].dict["spec"], base_spec, exclusions)
             bad == {i \in 1..Len(fwl) : IsError(sp(i))}
             \* the loop of lines 460-462 stops at the first node that raises
             upto == IF bad = {} THEN Len(fwl)
                     ELSE (CHOOSE i \in bad : \A j \in bad : i <= j) - 1
             fwl2 == [i \in 1..Len(fwl) |->
                        IF i <= upto THEN DictV(SetKey(fwl[i].dict, "spec", sp(i)))
                        ELSE fwl[i]]
             obj == DictV(SetKey(obj_dict.dict, "fws", ListV(fwl2)))
         IN IF bad # {}
            THEN [error |-> "TypeError", wf |-> NoWf, next_id |-> next_id,
                  obj |-> obj]
            ELSE [error |-> "",
                  wf |-> RemappedWf(fwl2, obj_dict.dict["links"].dict, next_id),
                  next_id |-> next_id - Len(fwl),
                  obj |-> obj]

\* ------------------------------------------------------------ from_fw_spec

\* from_fw_spec(param, fw_spec): a {'key': k} parameter is looked up in
\* fw_spec (k a one-token key), any other parameter is returned as it is.
from_fw_spec(param, spec) ==
    IF IsDict(param) /\ "key" \in DOMAIN param.dict
    THEN get_nested_dict_value(spec, param.dict["key"].str)
    ELSE param

\* ------------------------------------------------- run_task: file staging

\* The directory of the previous job and the current directory, as the task
\* sees them: glob[p] lists the files of the previous launch directory that
\* match pattern p, mtime[f] is os.path.getmtime(f), copy_fail holds the
\* files shutil.copy fails on, cwd_glob[p] lists the matches of p in os.curdir.
Glob(env, pat) == IF pat \in DOMAIN env.glob THEN env.glob[pat] ELSE <<>>

CurDir == "."

\* The characters of a pattern string (iterating a str yields its characters).
CharsOf(s) ==
    CASE s = "*.log" -> <<"*", ".", "l", "o", "g">>
      [] s = "*" -> <<"*">>
      [] OTHER -> <<s>>

\* lines 626-627: a plain string is one pattern.
RestartPatterns(p) == IF IsList(p) THEN [i \in 1..Len(p.list) |-> p.list[i].str]
                      ELSE <<p.str>>

\* Variant of RestartDests that keeps a destination list whose length differs
\* from the number of patterns.
RestartDestsKeepingMismatch(d, n) ==
    LET d1 == IF ~Truthy(d) THEN <<CurDir>>
              ELSE IF IsList(d) THEN [i \in 1..Len(d.list) |-> d.list[i].str]
              ELSE <<d.str>>
    IN IF Len(d1) = 1 THEN [i \in 1..n |-> d1[1]] ELSE d1

\* lines 629-657: one destination per restart pattern.
RestartDests(d, n) ==
    LET d1 == IF ~Truthy(d) THEN <<CurDir>>
              ELSE IF IsList(d) THEN [i \in 1..Len(d.list) |-> d.list[i].str]
              ELSE <<d.str>>
        d2 == IF Len(d1) = 1 THEN [i \in 1..n |-> d1[1]] ELSE d1
    IN IF Len(d2) > 1 /\ n # Len(d2) THEN [i \in 1..n |-> CurDir] ELSE d2

\* lines 704-714: the files matched by other_glob_patterns.
OtherFiles(env, other) ==
    LET pats == IF IsList(other) THEN other.list
                ELSE IF DOMAIN other = {"str"}
                THEN [i \in 1..Len(CharsOf(other.str)) |-> StrV(CharsOf(other.str)[i])]
                ELSE <<other>>
        F[i \in 0..Len(pats)] ==
            IF i = 0 THEN <<>>
            ELSE IF DOMAIN pats[i] = {"str"} THEN F[i-1] \o Glob(env, pats[i].str)
            ELSE F[i-1]
    IN F[Len(pats)]

\* Variant of MostRecent that takes the first match as glob lists it.
MostRecentIsFirstListed(env, matches) == matches[1]

\* sorted(matches, key=os.path.getmtime)[-1]: the last of the newest matches.
MostRecent(env, matches) ==
    LET i == CHOOSE i \in 1..Len(matches) :
                /\ \A j \in 1..Len(matches) : env.mtime[matches[j]] <= env.mtime[matches[i]]
                /\ \A j \in 1..Len(matches) :
                      env.mtime[matches[j]] = env.mtime[matches[i]] => j <= i
    IN matches[i]

\* Variant of CopyAll that swallows every failing copy.
CopyAllTolerant(env, pairs, tolerate) ==
    [error |-> "",
     copied |-> SelectSeq(pairs, LAMBDA pr : pr[1] \notin env.copy_fail)]

\* Copies `pairs` (<<src, dest>>) in order; a failing copy is skipped when
\* tolerated and ends the loop with an error otherwise.
CopyAll(env, pairs, tolerate) ==
    LET bad == {i \in 1..Len(pairs) : pairs[i][1] \in env.copy_fail}
        stop == IF bad = {} \/ tolerate THEN Len(pairs) + 1
                ELSE CHOOSE i \in bad : \A j \in bad : i <= j
    IN [error |-> IF stop <= Len(pairs) THEN "CopyError" ELSE "",
        copied |-> SelectSeq(SubSeq(pairs, 1, stop - 1),
                             LAMBDA pr : pr[1] \notin env.copy_fail)]

\* Variant of NoRestartFileRaises that fails on a pattern without match
\* whatever fizzle_on_no_restart_file says.
NoRestartFileRaisesAlways(task, none) == none # {}

\* lines 762-767: a pattern without match (none: their indices) raises when
\* fizzle_on_no_restart_file is set and is passed over otherwise.
NoRestartFileRaises(task, none) == none # {} /\ task.fizzle_on_no_restart_file

\* Variant of CollectFiles that copies each restart file as soon as its
\* pattern is matched, so that a later pattern without match fails the task
\* with the earlier restart files already in place.
CollectFilesCopyingAsMatched(env, task, patterns, dests) ==
    LET others == OtherFiles(env, task.other_glob_patterns)
        oc == CopyAll(env, [i \in 1..Len(others) |-> <<others[i], "cwd">>],
                      task.ignore_errors)
        n == IF Len(patterns) < Len(dests) THEN Len(patterns) ELSE Len(dests)
        none == {i \in 1..n : Len(Glob(env, patterns[i])) = 0}
        first == IF none = {} THEN n + 1 ELSE CHOOSE i \in none : \A j \in none : i <= j
        pick(i) == LET m == Glob(env, patterns[i])
                   IN IF Len(m) > 1 THEN MostRecent(env, m) ELSE m[1]
        R[i \in 0..n] ==
            IF i = 0 THEN <<>>
            ELSE IF i \in none THEN R[i-1]
            ELSE Append(R[i-1], <<pick(i), dests[i]>>)
        rc == CopyAll(env, R[n], FALSE)
        before == CopyAll(env, R[first - 1], FALSE)
    IN IF oc.error # "" THEN oc
       ELSE IF NoRestartFileRaises(task, none)
       THEN [error |-> IF before.error # "" THEN before.error ELSE "ValueError",
             copied |-> oc.copied \o before.copied]
       ELSE [error |-> rc.error, copied |-> oc.copied \o rc.copied]

\* lines 700-781 (recover = true): other files are copied into the current
\* directory, then one restart file per pattern is selected, then those are
\* copied.  Result: error ("" when none) and the copies made, in order.
CollectFiles(env, task, patterns, dests) ==
    LET others == OtherFiles(env, task.other_glob_patterns)
        oc == CopyAll(env, [i \in 1..Len(others) |-> <<others[i], "cwd">>],
                      task.ignore_errors)
        n == IF Len(patterns) < Len(dests) THEN Len(patterns) ELSE Len(dests)
        none == {i \in 1..n : Len(Glob(env, patterns[i])) = 0}
        pick(i) == LET m == Glob(env, patterns[i])
                   IN IF Len(m) > 1 THEN MostRecent(env, m) ELSE m[1]
        R[i \in 0..n] ==
            IF i = 0 THEN <<>>
            ELSE IF i \in none THEN R[i-1]
            ELSE Append(R[i-1], <<pick(i), dests[i]>>)
        rc == CopyAll(env, R[n], FALSE)
    IN IF oc.error # "" THEN oc
       ELSE IF NoRestartFileRaises(task, none)
       THEN [error |-> "ValueError", copied |-> oc.copied]
       ELSE [error |-> rc.error, copied |-> oc.copied \o rc.copied]

\* ------------------------------------------------------- write_files_prev

\* Whether a Workflow object has an attribute `root_wf_ids` (line 517 reads
\* it; fireworks' Workflow names its property root_fw_ids).
WorkflowHasRootWfIds == FALSE

\* Lexicographic rank of the paths the current directory may hold.
PathRank == ("./out.1" :> 1) @@ ("./out.2" :> 2)

\* lines 504-514: each output key with a match maps to sorted(files)[-1].
FilesPrev(files_out, env) ==
    LET hit == {k \in DOMAIN files_out :
                  files_out[k].str \in DOMAIN env.cwd_glob
                  /\ Len(env.cwd_glob[files_out[k].str]) > 0}
    IN [k \in hit |->
          LET fs == SeqToSet(env.cwd_glob[files_out[k].str])
          IN StrV(CHOOSE f \in fs : \A g \in fs : PathRank[g] <= PathRank[f])]

\* write_files_prev(wf, fw_spec); wfo is <<>> for None and <<wf>> otherwise.
\* Result: error ("" when none) and the workflow as the call leaves it.
write_files_prev(wfo, spec, env) ==
    IF ~Truthy(GetOrNone(spec, "_files_out")) THEN [error |-> "", wf |-> wfo]
    ELSE IF wfo = <<>> \/ ~WorkflowHasRootWfIds
    THEN [error |-> "AttributeError", wf |-> wfo]
    ELSE LET wf == wfo[1]
             roots == SeqToSet(root_fw_ids(wf))
             fp == DictV(FilesPrev(spec["_files_out"].dict, env))
         IN [error |-> "",
             wf |-> <<[wf EXCEPT !.id_fw =
                         [i \in DOMAIN wf.id_fw |->
                            IF i \in roots
                            THEN [wf.id_fw[i] EXCEPT !.spec = SetKey(@, "_files_prev", fp)]
                            ELSE wf.id_fw[i]]]>>]

\* --------------------------------------------------------- apply_mod_spec

RECURSIVE Traverse(_, _, _)
\* recursive_update_spec of lines 172-178: the ids in the order of their
\* first visit, starting from `ids` and descending wf.links.
Traverse(wf, ids, visited) ==
    IF ids = <<>> THEN visited
    ELSE IF Head(ids) \in SeqToSet(visited) THEN Traverse(wf, Tail(ids), visited)
    ELSE Traverse(wf, Tail(ids),
                  Traverse(wf, wf.links[Head(ids)], Append(visited, Head(ids))))

\* dict.update(update_spec) on a spec.
UpdateSpec(spec, upd) ==
    [k \in (DOMAIN spec) \cup (DOMAIN upd) |-> IF k \in DOMAIN upd THEN upd[k] ELSE spec[k]]

\* apply_mod for the '_set' operation on a one-token key; mods is the list
\* action.mod_spec of [op, key, val] entries.
RECURSIVE ApplyMods(_, _)
ApplyMods(spec, mods) ==
    IF mods = <<>> THEN spec
    ELSE ApplyMods(IF Head(mods).op = "_set"
                   THEN set_nested_dict_value(spec, Head(mods).key, Head(mods).val)
                   ELSE spec,
                   Tail(mods))

\* Variant of UpdateSpecIds that visits the starting nodes a second time.
UpdateSpecIdsRevisiting(wf, action) ==
    IF DOMAIN action.update_spec = {} THEN <<>>
    ELSE leaf_fw_ids(wf) \o leaf_fw_ids(wf)

\* The ids apply_mod_spec updates through update_spec (lines 168-185).
UpdateSpecIds(wf, action) ==
    IF DOMAIN action.update_spec = {} THEN <<>>
    ELSE IF action.propagate THEN Traverse(wf, leaf_fw_ids(wf), <<>>)
    ELSE leaf_fw_ids(wf)

\* The ids apply_mod_spec updates through mod_spec (lines 187-204): with
\* propagate the first id is modified and the recursion on it
\* (recursive_mod_spec(cfid), an int) raises.
ModSpecIds(wf, action) ==
    IF action.mod_spec = <<>> THEN <<>>
    ELSE IF action.propagate THEN SubSeq(leaf_fw_ids(wf), 1, 1)
    ELSE leaf_fw_ids(wf)

\* apply_mod_spec(wf, action): error ("" when none), the workflow as the call
\* leaves it and the list updated_ids.
apply_mod_spec(wf, action) ==
    LET uids == UpdateSpecIds(wf, action)
        mids == ModSpecIds(wf, action)
        spec1(i) == IF i \in SeqToSet(uids)
                    THEN UpdateSpec(wf.id_fw[i].spec, action.update_spec)
                    ELSE wf.id_fw[i].spec
        spec2(i) == IF i \in SeqToSet(mids) THEN ApplyMods(spec1(i), action.mod_spec)
                    ELSE spec1(i)
    IN [error |-> IF action.mod_spec # <<>> /\ action.propagate /\ mids # <<>>
                  THEN "TypeError" ELSE "",
        wf |-> [wf EXCEPT !.id_fw = [i \in DOMAIN wf.id_fw |->
                                       [wf.id_fw[i] EXCEPT !.spec = spec2(i)]]],
        updated_ids |-> uids \o mids]

\* ------------------------------------------------- run_task: classification

\* lines 662-698: recover unless the spec has neither record.
Recover(spec) == "_job_info" \in DOMAIN spec \/ "_fizzled_parents" \in DOMAIN spec

\* lines 667-669, 679-682: the last entry of _job_info, else the last fizzled
\* parent, else None.
PrevJobInfo(spec) ==
    IF "_job_info" \in DOMAIN spec THEN Last(spec["_job_info"].list)
    ELSE IF "_fizzled_parents" \in DOMAIN spec
    THEN Last(spec["_fizzled_parents"].list)
    ELSE NoneV

\* Variant of PathPrefix that takes the first launch of the fizzled parent
\* instead of the last one.
PathPrefixFirstLaunch(spec) ==
    IF "_job_info" \in DOMAIN spec
    THEN Last(spec["_job_info"].list).dict["launch_dir"]
    ELSE IF "_fizzled_parents" \in DOMAIN spec
    THEN Last(spec["_fizzled_parents"].list).dict["launches"].list[1].dict["launch_dir"]
    ELSE NoneV

\* lines 670, 684: where the previous job ran.
PathPrefix(spec) ==
    IF "_job_info" \in DOMAIN spec
    THEN PrevJobInfo(spec).dict["launch_dir"]
    ELSE IF "_fizzled_parents" \in DOMAIN spec
    THEN Last(PrevJobInfo(spec).dict["launches"].list).dict["launch_dir"]
    ELSE NoneV

\* lines 791-799 (and 842-850, 932-940): the parent's spec to superpose on;
\* `"spec" in prev_job_info` raises TypeError when prev_job_info is None.
BaseSpec(superpose, prev) ==
    IF ~superpose THEN NoneV
    ELSE IF ~IsDict(prev) THEN Raise("TypeError")
    ELSE IF "spec" \in DOMAIN prev.dict THEN prev.dict["spec"]
    ELSE NoneV

\* --------------------------------------------------- run_task: restart count

\* lines 812-820: the counter in the previous job's spec, None when the record
\* has no spec or the spec has no value at the counter path.
ParentLookup(prev, restart_counter) ==
    IF Truthy(prev) /\ "spec" \in DOMAIN prev.dict
    THEN LET v == get_nested_dict_value(prev.dict["spec"].dict, restart_counter)
         IN IF IsError(v) THEN NoneV ELSE v
    ELSE NoneV

\* Variant of OwnLookup that reads the task's own fw_spec, as the comment at
\* line 822 announces.
OwnLookupInOwnSpec(prev, own_spec, restart_counter) ==
    LET v == get_nested_dict_value(own_spec, restart_counter)
    IN IF IsError(v) THEN NoneV ELSE v

\* lines 823-829: the second lookup, run when the first found nothing.  It
\* reads prev_job_info['spec'] again; the KeyError of a missing 'spec' or a
\* missing counter is caught.  own_spec is the task's own fw_spec.
OwnLookup(prev, own_spec, restart_counter) ==
    IF "spec" \in DOMAIN prev.dict
    THEN LET v == get_nested_dict_value(prev.dict["spec"].dict, restart_counter)
         IN IF IsError(v) THEN NoneV ELSE v
    ELSE NoneV

\* Variant of RestartCount that counts a missing counter as the first restart.
RestartCountFromOne(prev, own_spec, restart_counter) ==
    LET first == ParentLookup(prev, restart_counter)
        found == IF IsNone(first) THEN OwnLookup(prev, own_spec, restart_counter)
                 ELSE first
    IN IF IsNone(found) THEN 1 ELSE found.int + 1

\* lines 811-835: the count of this attempt.
RestartCount(prev, own_spec, restart_counter) ==
    LET first == ParentLookup(prev, restart_counter)
        found == IF IsNone(first) THEN OwnLookup(prev, own_spec, restart_counter)
                 ELSE first
    IN IF IsNone(found) THEN 0 ELSE found.int + 1

\* Variant of RestartAllowed that stops one attempt earlier.
RestartAllowedBelowMax(restart_count, max_restarts) == restart_count < max_restarts

\* line 837
RestartAllowed(restart_count, max_restarts) == restart_count < max_restarts + 1

\* Variant of InjectCounter that sets the count in the leaves only.
InjectCounterInLeaves(wf, restart_counter, restart_count) ==
    [wf EXCEPT !.id_fw =
        [i \in DOMAIN wf.id_fw |->
            IF i \in SeqToSet(leaf_fw_ids(wf))
            THEN [wf.id_fw[i] EXCEPT !.spec =
                    set_nested_dict_value(@, restart_counter, IntV(restart_count))]
            ELSE wf.id_fw[i]]]

\* lines 856-858: the count is set in the spec of every node of restart_wf.
InjectCounter(wf, restart_counter, restart_count) ==
    [wf EXCEPT !.id_fw =
        [i \in DOMAIN wf.id_fw |->
            [wf.id_fw[i] EXCEPT !.spec =
                set_nested_dict_value(@, restart_counter, IntV(restart_count))]]]

\* lines 589-592: the exclusion map of a list of keys.
ExclusionDict(keys) == DictV([k \in SeqToSet(keys) |-> TrueV])

\* Variant of RecoverFwSpec that merges without adding keys, which leaves the
\* empty base untouched.
RecoverFwSpecNoNewKeys(spec, exclusions) ==
    dict_merge(EmptyDict, spec, FALSE, exclusions, DictV(EmptyDict))

\* lines 872-873: the spec of the repeated recovery Firework.
RecoverFwSpec(spec, exclusions) ==
    dict_merge(EmptyDict, spec, TRUE, exclusions, DictV(EmptyDict))

\* Variant of CombineDetourRestart that makes the roots of restart_wf children
\* of the leaves of detour_wf.
CombineDetourRestartInSeries(detour, restart_wf) ==
    IF detour # <<>> THEN append_wf(detour[1], restart_wf, leaf_fw_ids(detour[1]))
    ELSE restart_wf

\* lines 900-903: restart_wf joins detour_wf, or becomes it.
CombineDetourRestart(detour, restart_wf) ==
    IF detour # <<>> THEN append_wf(detour[1], restart_wf, <<>>) ELSE restart_wf

\* Variant of AppendRecoverFw that appends to the first leaf only.
AppendRecoverFwToFirstLeaf(wf, id, spec, name) ==
    append_wf(wf,
              [fws |-> <<id>>, id_fw |-> (id :> [spec |-> spec, name |-> name]),
               links |-> (id :> <<>>)],
              SubSeq(leaf_fw_ids(wf), 1, 1))

\* lines 905-917: the recovery Firework becomes the child of every leaf.
AppendRecoverFw(wf, id, spec, name) ==
    append_wf(wf,
              [fws |-> <<id>>, id_fw |-> (id :> [spec |-> spec, name |-> name]),
               links |-> (id :> <<>>)],
              leaf_fw_ids(wf))

\* ------------------------------------------------------------------ run_task

NoBuild(obj, next_id) ==
    [error |-> "", wf |-> NoWf, next_id |-> next_id, obj |-> obj]

\* Variant of BuildFragment that numbers every fragment from -1 again.
BuildFragmentFromMinusOne(obj, superpose, prev, exclusions, next_id) ==
    LET base == BaseSpec(superpose, prev)
    IN IF IsError(base)
       THEN [error |-> base.error, wf |-> NoWf, next_id |-> next_id, obj |-> obj]
       ELSE appendable_wf_from_dict(obj, base, exclusions, -1)

\* One fragment: the parent's spec is pulled when superposition is asked for,
\* then appendable_wf_from_dict builds the Workflow.
BuildFragment(obj, superpose, prev, exclusions, next_id) ==
    LET base == BaseSpec(superpose, prev)
    IN IF IsError(base)
       THEN [error |-> base.error, wf |-> NoWf, next_id |-> next_id, obj |-> obj]
       ELSE appendable_wf_from_dict(obj, base, exclusions, next_id)

\* lines 952-961: the FWAction before the fragments are attached.
FwAction(task) ==
    [update_spec |-> EmptyDict,
     mod_spec |-> IF Truthy(task.output)
                  THEN <<[op |-> task.dict_mod, key |-> task.output.str,
                          val |-> DictV(EmptyDict)]>>
                  ELSE <<>>,
     propagate |-> task.propagate]

\* lines 963-967: update_spec and mod_spec are applied to a fragment a priori.
ApplyToFragment(wfo, flag, action) ==
    IF wfo # <<>> /\ flag
    THEN LET r == apply_mod_spec(wfo[1], action)
         IN [error |-> r.error, wf |-> <<r.wf>>]
    ELSE [error |-> "", wf |-> wfo]

\* The state of one run_task call between its stages: the exception that
\* escaped (error, "" when none), what the classification computed, the files
\* copied, self.consecutive_fw_id (next_id), the fragments built so far
\* (detours, additions: no or one Workflow), the ids of the restart
\* fragment's nodes and of the repeated recovery Firework inside detours, and
\* the task's parameters as the call leaves them (the fragment descriptions
\* are assigned into by appendable_wf_from_dict).
Fail(st, e) == [st EXCEPT !.error = e]

\* lines 546-547, 662-781: parameters, classification, file staging.
StageFiles(task, spec, env) ==
    LET st == [error |-> "", recover |-> Recover(spec), prev |-> PrevJobInfo(spec),
               path_prefix |-> PathPrefix(spec), restart_count |-> NoneV,
               restart_ids |-> <<>>, recover_fw |-> <<>>, detours |-> <<>>,
               additions |-> <<>>, copied |-> <<>>, next_id |-> -1, task |-> task]
        max_restarts == from_fw_spec(task.max_restarts, spec)
        patterns == RestartPatterns(task.restart_file_glob_patterns)
    IN IF IsError(max_restarts) THEN Fail(st, max_restarts.error)
       ELSE IF ~st.recover THEN st
       ELSE LET files == CollectFiles(env, task, patterns,
                                      RestartDests(task.restart_file_dests, Len(patterns)))
            IN [st EXCEPT !.error = files.error, !.copied = files.copied]

\* lines 786-802: the detour fragment.
StageDetour(spec, st) ==
    IF st.error # "" \/ ~IsDict(st.task.detour_wf) THEN st
    ELSE LET b == BuildFragment(st.task.detour_wf,
                                st.task.superpose_detour_on_parent_fw_spec, st.prev,
                                ExclusionDict(st.task.fw_spec_to_exclude), st.next_id)
         IN IF b.error # "" THEN Fail(st, b.error)
            ELSE [st EXCEPT !.detours = <<b.wf>>, !.next_id = b.next_id,
                            !.task.detour_wf = b.obj]

\* lines 842-921: the restart fragment b, built for count, is spliced in
\* together with the repeated recovery Firework.
SpliceRestart(spec, st, count, b) ==
    LET rspec == RecoverFwSpec(spec, ExclusionDict(st.task.fw_spec_to_exclude))
        restart_wf == InjectCounter(b.wf, st.task.restart_counter, count)
    IN IF b.error # "" THEN Fail(st, b.error)
       ELSE IF IsError(rspec) THEN Fail(st, rspec.error)
       ELSE [st EXCEPT
               !.detours = <<AppendRecoverFw(CombineDetourRestart(st.detours, restart_wf),
                                             b.next_id, rspec.dict,
                                             st.task.repeated_recover_fw_name)>>,
               !.restart_ids = b.wf.fws,
               !.recover_fw = <<b.next_id>>,
               !.next_id = b.next_id - 1,
               !.task.restart_wf = b.obj]

\* line 927: write_files_prev(detour_wf, fw_spec) closes the recover branch.
DetourFilesPrev(spec, env, st) ==
    IF st.error # "" THEN st
    ELSE LET w == write_files_prev(st.detours, spec, env)
         IN [st EXCEPT !.error = w.error, !.detours = w.wf]

\* Variant of StageRestart that hands the detour fragment to write_files_prev
\* on the branch without recovery as well.
StageRestartFilesPrevAlways(spec, env, st) ==
    IF st.error # "" THEN st
    ELSE IF ~st.recover THEN DetourFilesPrev(spec, env, st)
    ELSE LET count == RestartCount(st.prev, spec, st.task.restart_counter)
             st1 == [st EXCEPT !.restart_count = IntV(count)]
         IN IF RestartAllowed(count, from_fw_spec(st.task.max_restarts, spec).int)
            THEN DetourFilesPrev(spec, env,
                    SpliceRestart(spec, st1, count,
                        BuildFragment(st.task.restart_wf,
                                      st.task.superpose_restart_on_parent_fw_spec,
                                      st.prev,
                                      ExclusionDict(st.task.fw_spec_to_exclude),
                                      st.next_id)))
            ELSE DetourFilesPrev(spec, env, st1)

\* lines 810-929: restart count, restart fragment, recovery Firework.
StageRestart(spec, env, st) ==
    IF st.error # "" \/ ~st.recover THEN st
    ELSE LET count == RestartCount(st.prev, spec, st.task.restart_counter)
             st1 == [st EXCEPT !.restart_count = IntV(count)]
         IN IF RestartAllowed(count, from_fw_spec(st.task.max_restarts, spec).int)
            THEN DetourFilesPrev(spec, env,
                    SpliceRestart(spec, st1, count,
                        BuildFragment(st.task.restart_wf,
                                      st.task.superpose_restart_on_parent_fw_spec,
                                      st.prev,
                                      ExclusionDict(st.task.fw_spec_to_exclude),
                                      st.next_id)))
            ELSE DetourFilesPrev(spec, env, st1)

\* lines 943-944: the addition fragment b gets its _files_prev.
AdditionFilesPrev(spec, env, st, b) ==
    IF b.error # "" THEN Fail(st, b.error)
    ELSE LET w == write_files_prev(<<b.wf>>, spec, env)
         IN [st EXCEPT !.error = w.error, !.additions = w.wf,
                       !.next_id = b.next_id, !.task.addition_wf = b.obj]

\* Variant of StageAddition that hands the addition the identifier used last.
StageAdditionReusingId(spec, env, st) ==
    IF st.error # "" \/ ~IsDict(st.task.addition_wf) THEN st
    ELSE AdditionFilesPrev(spec, env, st,
            BuildFragment(st.task.addition_wf,
                          st.task.superpose_addition_on_parent_fw_spec, st.prev,
                          ExclusionDict(st.task.fw_spec_to_exclude), st.next_id + 1))

\* lines 931-944: the addition fragment.
StageAddition(spec, env, st) ==
    IF st.error # "" \/ ~IsDict(st.task.addition_wf) THEN st
    ELSE AdditionFilesPrev(spec, env, st,
            BuildFragment(st.task.addition_wf,
                          st.task.superpose_addition_on_parent_fw_spec, st.prev,
                          ExclusionDict(st.task.fw_spec_to_exclude), st.next_id))

\* lines 963-967: apply_mod_spec on the addition (a), then on the detour (d).
AppliedAction(st, a, d) ==
    IF a.error # "" THEN Fail(st, a.error)
    ELSE [st EXCEPT !.error = d.error, !.additions = a.wf, !.detours = d.wf]

\* lines 947-975: the FWAction.
StageAction(st) ==
    IF st.error # "" THEN st
    ELSE AppliedAction(st,
            ApplyToFragment(st.additions, st.task.apply_mod_spec_to_addition_wf,
                            FwAction(st.task)),
            ApplyToFragment(st.detours, st.task.apply_mod_spec_to_detour_wf,
                            FwAction(st.task)))

\* What the caller gets: no action when an exception escaped.
Returned(task, st) ==
    IF st.error = "" THEN st
    ELSE [st EXCEPT !.restart_count = NoneV, !.restart_ids = <<>>,
                    !.recover_fw = <<>>, !.detours = <<>>, !.additions = <<>>,
                    !.task = task]

\* run_task(self, fw_spec) in the environment env.
run_task(task, spec, env) ==
    Returned(task,
        StageAction(
            StageAddition(spec, env,
                StageRestart(spec, env,
                    StageDetour(spec, StageFiles(task, spec, env))))))

\* ------------------------------------------------------------- the machine

\* Bounds of the model.
MaxRestartsBound == 2
MaxCount == 2
MaxAttempts == 4

VARIABLES
    task,       \* the parameters of the RecoverTask (self)
    fw_spec,    \* the spec of the Firework the task runs in
    pc,         \* "ready": about to run; "done": action returned; "raised"
    result,     \* what the last run_task call produced
    call,       \* one direct call of apply_mod_spec, write_files_prev,
                \* dict_merge or appendable_wf_from_dict:
                \* its arguments, its position and what it produced
    hist        \* bookkeeping over the chain of recovery Fireworks:
                \* attempts: run_task calls so far; restarts: restart fragments
                \* spliced in so far; pure: the chain began at a fizzled parent
                \* without counter and every restart since fizzled; after:
                \* what the engine did before this run; prev_kind: how the
                \* previous run was classified; prev_count: the counter the
                \* fizzled restart leaf carried; env: the directory
                \* contents the last run met

vars == <<task, fw_spec, pc, result, hist, call>>

\* Fragment descriptions.
SingleFw(name) ==
    DictV(("spec" :> DictV("x" :> IntV(1))) @@ ("name" :> StrV(name)))

TwoNodeWf(name) ==
    DictV(("fws" :> ListV(<<DictV(("fw_id" :> IntV(1)) @@ ("name" :> StrV(name))
                                  @@ ("spec" :> DictV("x" :> IntV(1)))),
                            DictV(("fw_id" :> IntV(2)) @@ ("name" :> StrV(name))
                                  @@ ("spec" :> DictV("y" :> IntV(2))))>>))
          @@ ("links" :> DictV("1" :> ListV(<<IntV(2)>>))))

\* The parameters with the defaults of lines 527-602.
Tasks ==
    [restart_wf : {NoneV, SingleFw("restart"), TwoNodeWf("restart")},
     detour_wf : {NoneV, SingleFw("detour")},
     addition_wf : {NoneV, SingleFw("addition")},
     max_restarts : {IntV(m) : m \in 0..MaxRestartsBound},
     restart_counter : {"restart_count"},
     fw_spec_to_exclude : {<<"_job_info", "_fw_env", "_files_prev", "_fizzled_parents">>},
     superpose_restart_on_parent_fw_spec : BOOLEAN,
     superpose_detour_on_parent_fw_spec : BOOLEAN,
     superpose_addition_on_parent_fw_spec : BOOLEAN,
     fizzle_on_no_restart_file : BOOLEAN,
     ignore_errors : BOOLEAN,
     restart_file_glob_patterns : {ListV(<<StrV("*.restart[0-9]")>>)},
     restart_file_dests : {NoneV},
     other_glob_patterns : {NoneV, ListV(<<StrV("*.log")>>)},
     repeated_recover_fw_name : {"Repeated LAMMPS recovery"},
     apply_mod_spec_to_addition_wf : {TRUE},
     apply_mod_spec_to_detour_wf : {TRUE},
     output : {NoneV},
     dict_mod : {"_set"},
     propagate : {FALSE}]

\* The record the engine keeps of a fizzled parent (Firework.to_dict()).
ParentRecord(name, id, spec, dirs) ==
    DictV(("name" :> StrV(name)) @@ ("fw_id" :> IntV(id)) @@ ("spec" :> DictV(spec))
          @@ ("launches" :> ListV([i \in 1..Len(dirs) |->
                                     DictV("launch_dir" :> StrV(dirs[i]))])))

\* An entry of _job_info: name, fw_id and launch_dir, no spec.
JobInfo(id, dir) ==
    DictV(("name" :> StrV("run")) @@ ("fw_id" :> IntV(id))
          @@ ("launch_dir" :> StrV(dir)))

WithCounter(spec, c) == IF c < 0 THEN spec ELSE SetKey(spec, "restart_count", IntV(c))

\* The specs the first recovery Firework may run with; a counter of -1 stands
\* for no counter.
PrevRecords ==
    {EmptyDict}
    \cup {("_fizzled_parents" :>
              ListV(<<ParentRecord("run", 1, WithCounter("x" :> IntV(0), c),
                                   <<"dirOld", "dirA">>)>>)) : c \in -1..MaxCount}
    \cup {("_fizzled_parents" :>
              ListV(<<ParentRecord("run", 1, "x" :> IntV(0), <<"dirA">>),
                      ParentRecord("run", 2, WithCounter("x" :> IntV(0), 1),
                                   <<"dirB">>)>>))}
    \cup {("_job_info" :> ListV(<<JobInfo(1, "dirJ1"), JobInfo(2, "dirJ2")>>))}
    \cup {("_job_info" :> ListV(<<JobInfo(1, "dirJ1")>>))
          @@ ("_fizzled_parents" :>
                 ListV(<<ParentRecord("run", 2, WithCounter("x" :> IntV(0), 1),
                                      <<"dirA">>)>>))}

\* What a spec may declare as _files_out: nothing, or one output key.
FilesOut == {EmptyDict, "_files_out" :> DictV("out" :> StrV("out.*"))}

InitialSpecs ==
    {WithCounter(("_allow_fizzled_parents" :> TrueV) @@ p @@ f, c) :
        p \in PrevRecords, c \in {-1, MaxCount}, f \in FilesOut}

\* The directories a run may meet.
Env(restart_files, newest, failing) ==
    [glob |-> ("*.restart[0-9]" :> restart_files) @@ ("*.log" :> <<"a.log", "b.log">>),
     mtime |-> [f \in {"job.restart3", "job.restart7"} |-> IF f = newest THEN 2 ELSE 1],
     copy_fail |-> failing,
     cwd_glob |-> ("out.*" :> <<"./out.1", "./out.2">>)]

Envs ==
    {Env(<<>>, "job.restart7", {}),
     Env(<<>>, "job.restart7", {"a.log"}),
     Env(<<"job.restart3">>, "job.restart3", {}),
     Env(<<"job.restart7", "job.restart3">>, "job.restart7", {}),
     Env(<<"job.restart7", "job.restart3">>, "job.restart3", {}),
     Env(<<"job.restart7", "job.restart3">>, "job.restart7", {"job.restart7"}),
     Env(<<"job.restart7", "job.restart3">>, "job.restart7", {"a.log"})}

\* No run has looked at a directory yet.
NoEnv == [glob |-> <<>>, mtime |-> <<>>, copy_fail |-> {}, cwd_glob |-> <<>>]

\* The file-handling parameters are at their defaults.
DefaultFilePolicy(t) ==
    /\ t.fizzle_on_no_restart_file
    /\ t.ignore_errors
    /\ IsNone(t.other_glob_patterns)

\* The task asks for a restart fragment only, without superposition.
RestartOnly(t) ==
    /\ IsNone(t.detour_wf)
    /\ IsNone(t.addition_wf)
    /\ ~t.superpose_restart_on_parent_fw_spec
    /\ ~t.superpose_detour_on_parent_fw_spec
    /\ ~t.superpose_addition_on_parent_fw_spec

NoResult ==
    [error |-> "", recover |-> FALSE, path_prefix |-> NoneV,
     restart_count |-> NoneV, restart_ids |-> <<>>, recover_fw |-> <<>>,
     detours |-> <<>>, additions |-> <<>>, copied |-> <<>>]

\* How the classification of lines 662-698 reads a spec.
Kind(spec) == IF "_job_info" \in DOMAIN spec THEN "job_info"
              ELSE IF "_fizzled_parents" \in DOMAIN spec THEN "fizzled"
              ELSE "none"

\* No direct call is under way.
NoCall == [pc |-> "none"]

Init ==
    /\ call = NoCall
    /\ task \in {t \in Tasks :
                   /\ DefaultFilePolicy(t) \/ RestartOnly(t)
                   /\ Cardinality({f \in {"r", "d", "a"} :
                       \/ f = "r" /\ t.superpose_restart_on_parent_fw_spec
                       \/ f = "d" /\ t.superpose_detour_on_parent_fw_spec
                       \/ f = "a" /\ t.superpose_addition_on_parent_fw_spec}) <= 1}
    /\ fw_spec \in InitialSpecs
    /\ pc = "ready"
    /\ result = NoResult
    /\ hist = [attempts |-> 0, restarts |-> 0,
               pure |-> Kind(fw_spec) = "fizzled"
                        /\ IsNone(ParentLookup(PrevJobInfo(fw_spec), "restart_count")),
               after |-> "start", prev_kind |-> "none", prev_count |-> 0,
               env |-> NoEnv]

\* The state after run_task returned r (or raised r.error).
RunTaskEffect(r, env) ==
    /\ result' = [k \in DOMAIN NoResult |-> r[k]]
    /\ task' = r.task
    /\ pc' = IF r.error = "" THEN "done" ELSE "raised"
    /\ hist' = [hist EXCEPT !.env = env,
                            !.attempts = @ + 1,
                            !.restarts = @ + (IF r.restart_ids # <<>> THEN 1 ELSE 0)]

\* The recovery Firework runs its task.
RunTask ==
    /\ pc = "ready"
    /\ \E env \in Envs : RunTaskEffect(run_task(task, fw_spec, env), env)
    /\ UNCHANGED <<fw_spec, call>>

\* The repeated recovery Firework of the returned detour.
RecoverFw == result.detours[1].id_fw[result.recover_fw[1]]

\* The leaves of the restart fragment: the restart nodes that are parents of
\* the repeated recovery Firework.
RestartLeaves ==
    {i \in SeqToSet(result.restart_ids) :
        result.recover_fw[1] \in SeqToSet(result.detours[1].links[i])}

\* The engine runs the restart fragment and it fizzles again: the repeated
\* recovery Firework becomes ready with the fizzled leaf as its fizzled parent.
RestartFizzles ==
    /\ pc = "done"
    /\ result.recover_fw # <<>>
    /\ hist.attempts < MaxAttempts
    /\ \E i \in RestartLeaves :
          /\ fw_spec' = SetKey(RecoverFw.spec, "_fizzled_parents",
                               ListV(<<ParentRecord(result.detours[1].id_fw[i].name, i,
                                                    result.detours[1].id_fw[i].spec,
                                                    <<"dirR">>)>>))
          /\ hist' = [hist EXCEPT
                        !.env = NoEnv,
                        !.after = "fizzled", !.prev_kind = Kind(fw_spec),
                        !.prev_count =
                            result.detours[1].id_fw[i].spec[task.restart_counter].int]
    /\ pc' = "ready"
    /\ result' = NoResult
    /\ UNCHANGED <<task, call>>

\* The engine runs the restart fragment and it completes: the repeated
\* recovery Firework becomes ready with the spec it was created with.
RestartCompletes ==
    /\ pc = "done"
    /\ result.recover_fw # <<>>
    /\ hist.attempts < MaxAttempts
    /\ fw_spec' = RecoverFw.spec
    /\ pc' = "ready"
    /\ result' = NoResult
    /\ hist' = [hist EXCEPT !.env = NoEnv,
                            !.after = "completed", !.prev_kind = Kind(fw_spec),
                            !.pure = FALSE]
    /\ UNCHANGED <<task, call>>

Next == RunTask \/ RestartFizzles \/ RestartCompletes

Spec == Init /\ [][Next]_vars

\* ------------------------------------------- direct calls of the helpers

\* Fragment descriptions with more than one edge: a diamond
\* (1 -> {2, 3} -> 4) and a fork (1 -> {2, 3}).
NodeDict(id, key) ==
    DictV(("fw_id" :> IntV(id)) @@ ("name" :> StrV("node"))
          @@ ("spec" :> DictV(key :> IntV(id))))

DiamondWf ==
    DictV(("fws" :> ListV(<<NodeDict(1, "x"), NodeDict(2, "y"),
                            NodeDict(3, "y"), NodeDict(4, "z")>>))
          @@ ("links" :> DictV(("1" :> ListV(<<IntV(2), IntV(3)>>))
                               @@ ("2" :> ListV(<<IntV(4)>>))
                               @@ ("3" :> ListV(<<IntV(4)>>)))))

ForkWf ==
    DictV(("fws" :> ListV(<<NodeDict(1, "x"), NodeDict(2, "y"), NodeDict(3, "y")>>))
          @@ ("links" :> DictV("1" :> ListV(<<IntV(2), IntV(3)>>))))

\* The Workflows the helpers are handed: fragments as
\* appendable_wf_from_dict builds them.
Graphs ==
    {appendable_wf_from_dict(d, NoneV, DictV(EmptyDict), -1).wf :
        d \in {SingleFw("node"), TwoNodeWf("node"), DiamondWf, ForkWf}}

\* The FWActions apply_mod_spec may be handed.
Actions ==
    [update_spec : {EmptyDict, "u" :> IntV(1)},
     mod_spec : {<<>>, <<[op |-> "_set", key |-> "out_key", val |-> DictV(EmptyDict)]>>},
     propagate : BOOLEAN]

\* The specs write_files_prev may be handed, and what the current directory
\* holds.
SourceSpecs == {("x" :> IntV(0)) @@ f : f \in FilesOut}

CwdEnvs ==
    [cwd_glob : {("out.*" :> <<>>), ("out.*" :> <<"./out.1", "./out.2">>)}]

InitCalls ==
    /\ call \in [pc : {"ready"}, wf : Graphs, action : Actions,
                  spec : SourceSpecs, env : CwdEnvs, out : {<<>>}]
    /\ task = NoneV
    /\ fw_spec = EmptyDict
    /\ pc = "idle"
    /\ result = NoResult
    /\ hist = <<>>

\* apply_mod_spec(wf, action) is called.
ApplyModSpec ==
    /\ call.pc = "ready"
    /\ call' = [call EXCEPT !.pc = "applied",
                            !.out = apply_mod_spec(call.wf, call.action)]
    /\ UNCHANGED <<task, fw_spec, pc, result, hist>>

\* write_files_prev(wf, fw_spec) is called.
WriteFilesPrev ==
    /\ call.pc = "ready"
    /\ call' = [call EXCEPT !.pc = "written",
                            !.out = write_files_prev(<<call.wf>>, call.spec, call.env)]
    /\ UNCHANGED <<task, fw_spec, pc, result, hist>>

NextCalls == ApplyModSpec \/ WriteFilesPrev

SpecCalls == InitCalls /\ [][NextCalls]_vars

\* --------------------- direct calls of dict_merge and appendable_wf_from_dict

\* Mappings up to three levels deep over a few keys and values.
FuncsOver(keys, vals) == UNION {[ks -> vals] : ks \in SUBSET keys}

InnerDicts ==
    {EmptyDict, "a" :> IntV(1), ("a" :> IntV(2)) @@ ("b" :> TrueV),
     "a" :> DictV("c" :> IntV(1))}

MergeValues ==
    {IntV(1), TrueV, ListV(<<IntV(1)>>)} \cup {DictV(d) : d \in InnerDicts}

MergeDicts == FuncsOver({"k", "j"}, MergeValues)

\* Exclusion maps: none, a top-level key, a nested key.
ExclusionMaps == {EmptyDict, "k" :> TrueV, "k" :> DictV("a" :> TrueV)}

MergeCalls ==
    [pc : {"ready"}, dct : MergeDicts, merge_dct : MergeDicts, add_keys : BOOLEAN,
     exclusions : ExclusionMaps, merge_exclusions : ExclusionMaps, out : {<<>>}]

\* The key a serialised links mapping holds for an id.
KeyOfId(i) == CHOOSE k \in DOMAIN IdOfKey : IdOfKey[k] = i

\* The spec of the described node at position p.
DescribedSpec(p) ==
    IF p = 2 THEN ("x" :> IntV(p)) @@ ("y" :> DictV("b" :> IntV(2)))
    ELSE "x" :> IntV(p)

DescribedNode(id, p) ==
    DictV(("fw_id" :> IntV(id)) @@ ("name" :> StrV("node"))
          @@ ("spec" :> DictV(DescribedSpec(p))))

\* The children of position p as the links mapping lists them.
DescribedChildren(ids, edges, p) ==
    LET cs == SelectSeq([c \in 1..Len(ids) |-> c], LAMBDA c : <<p, c>> \in edges)
    IN ListV([j \in 1..Len(cs) |-> IntV(ids[cs[j]])])

\* A serialised Workflow: the node at position p carries ids[p], edges are
\* pairs of positions.
WfDescription(ids, edges) ==
    DictV(("fws" :> ListV([p \in 1..Len(ids) |-> DescribedNode(ids[p], p)]))
          @@ ("links" :> DictV([k \in {KeyOfId(ids[e[1]]) : e \in edges} |->
                                  DescribedChildren(ids, edges,
                                      CHOOSE p \in 1..Len(ids) : KeyOfId(ids[p]) = k)])))

\* Described ids: apart from, equal to, and crossing the ids the counter hands
\* out next.
DescribedIds ==
    {<<1, 2>>, <<2, 1>>, <<-1, -2>>, <<-2, -1>>, <<-3, -2>>,
     <<1, 2, 3>>, <<-1, -2, -3>>, <<-3, -2, -1>>, <<-2, -3, -1>>, <<-2, -1, 3>>}

\* Chain, fork and join over the positions.
DescribedEdges(n) ==
    IF n = 2 THEN {{<<1, 2>>}}
    ELSE {{<<1, 2>>, <<2, 3>>}, {<<1, 2>>, <<1, 3>>}, {<<1, 3>>, <<2, 3>>}}

Descriptions ==
    {DescribedNode(1, 1), DescribedNode(-1, 2)}
    \cup UNION {{WfDescription(ids, edges) : edges \in DescribedEdges(Len(ids))} :
                   ids \in DescribedIds}

\* A parent's spec as run_task hands it on (None when not superposing).
ParentSpecs ==
    {NoneV, DictV(EmptyDict),
     DictV(("x" :> IntV(0)) @@ ("z" :> IntV(0))),
     DictV(("x" :> IntV(0)) @@ ("y" :> DictV("a" :> IntV(1)))),
     DictV(("x" :> IntV(0)) @@ ("_job_info" :> ListV(<<StrV("/parent")>>))),
     DictV(("x" :> IntV(0)) @@ ("_files_prev" :> DictV("out" :> StrV("/parent/out")))),
     DictV(("z" :> IntV(0)) @@ ("_fw_env" :> DictV(EmptyDict)))}

BuildCalls ==
    [pc : {"ready"}, obj : Descriptions, base_spec : ParentSpecs,
     exclusions : {DictV(EmptyDict),
                   ExclusionDict(<<"_job_info", "_fw_env", "_files_prev",
                                   "_fizzled_parents">>)},
     next_id : {-1, -2}, out : {<<>>}]

InitMerge ==
    /\ call \in MergeCalls \cup BuildCalls
    /\ task = NoneV
    /\ fw_spec = EmptyDict
    /\ pc = "idle"
    /\ result = NoResult
    /\ hist = <<>>

\* dict_merge(dct, merge_dct, add_keys, exclusions, merge_exclusions) is called.
DictMerge ==
    /\ call.pc = "ready"
    /\ "dct" \in DOMAIN call
    /\ call' = [call EXCEPT
                  !.pc = "merged",
                  !.out = [result |-> dict_merge(call.dct, call.merge_dct, call.add_keys,
                                                 DictV(call.exclusions),
                                                 DictV(call.merge_exclusions)),
                           args |-> dict_merge_args(call.dct, call.merge_dct,
                                                    call.add_keys,
                                                    DictV(call.exclusions),
                                                    DictV(call.merge_exclusions))]]
    /\ UNCHANGED <<task, fw_spec, pc, result, hist>>

\* appendable_wf_from_dict(obj_dict, base_spec, exclusions) is called.
BuildWf ==
    /\ call.pc = "ready"
    /\ "obj" \in DOMAIN call
    /\ call' = [call EXCEPT
                  !.pc = "built",
                  !.out = appendable_wf_from_dict(call.obj, call.base_spec,
                                                  call.exclusions, call.next_id)]
    /\ UNCHANGED <<task, fw_spec, pc, result, hist>>

NextMerge == DictMerge \/ BuildWf

SpecMerge == InitMerge /\ [][NextMerge]_vars

\* ------------------------------------------ direct runs of the file staging

\* A previous launch directory with the given restart and checkpoint files,
\* two log files and an input file; "*" matches every file, "." the directory
\* itself, which shutil.copy cannot copy.
FileEnv(restart_files, chk_files, failing) ==
    [glob |-> ("*.restart[0-9]" :> restart_files) @@ ("*.chk" :> chk_files)
              @@ ("*.log" :> <<"a.log", "b.log">>)
              @@ ("*" :> <<"a.log", "b.log", "in.lmp">> \o restart_files \o chk_files)
              @@ ("." :> <<".">>),
     mtime |-> ("job.restart3" :> 1) @@ ("job.restart7" :> 2) @@ ("job.chk" :> 1),
     copy_fail |-> failing \cup {"."},
     cwd_glob |-> <<>>]

FileEnvs ==
    {FileEnv(r, c, f) : r \in {<<>>, <<"job.restart7", "job.restart3">>},
                        c \in {<<>>, <<"job.chk">>},
                        f \in {{}, {"a.log"}}}

\* The file parameters of a task.
FileTasks ==
    [other_glob_patterns : {NoneV, StrV("*.log"), ListV(<<StrV("*.log")>>)},
     ignore_errors : BOOLEAN,
     fizzle_on_no_restart_file : BOOLEAN,
     restart_file_glob_patterns :
         {StrV("*.restart[0-9]"), ListV(<<>>), ListV(<<StrV("*.restart[0-9]")>>),
          ListV(<<StrV("*.restart[0-9]"), StrV("*.chk")>>),
          ListV(<<StrV("*.chk"), StrV("*.restart[0-9]")>>)},
     restart_file_dests :
         {NoneV, StrV(""), ListV(<<>>), StrV("in.restart"),
          ListV(<<StrV("in.restart")>>),
          ListV(<<StrV("in.restart"), StrV("in.chk")>>),
          ListV(<<StrV("in.restart"), StrV("in.chk"), StrV("in.old")>>)}]

InitFiles ==
    /\ call \in [pc : {"ready"}, task : FileTasks, env : FileEnvs, out : {<<>>}]
    /\ task = NoneV
    /\ fw_spec = EmptyDict
    /\ pc = "idle"
    /\ result = NoResult
    /\ hist = <<>>

\* The restart patterns of the call, normalised (lines 626-627).
CallPatterns == RestartPatterns(call.task.restart_file_glob_patterns)

\* lines 623-657 run: the destinations are normalised.
NormaliseDests ==
    /\ call.pc = "ready"
    /\ call' = [call EXCEPT
                  !.pc = "normalised",
                  !.out = RestartDests(call.task.restart_file_dests, Len(CallPatterns))]
    /\ UNCHANGED <<task, fw_spec, pc, result, hist>>

\* lines 623-781 run for a recovery: normalisation, then the file staging.
StageCallFiles ==
    /\ call.pc = "ready"
    /\ call' = [call EXCEPT
                  !.pc = "staged",
                  !.out = CollectFiles(call.env, call.task, CallPatterns,
                                       RestartDests(call.task.restart_file_dests,
                                                    Len(CallPatterns)))]
    /\ UNCHANGED <<task, fw_spec, pc, result, hist>>

NextFiles == NormaliseDests \/ StageCallFiles

SpecFiles == InitFiles /\ [][NextFiles]_vars

\* ---------------------------------------------------------------- properties

Finished == pc \in {"done", "raised"}

\* The record the run was classified by, read off the spec.
SpecPrev ==
    IF "_job_info" \in DOMAIN fw_spec
    THEN fw_spec["_job_info"].list[Len(fw_spec["_job_info"].list)]
    ELSE fw_spec["_fizzled_parents"].list[Len(fw_spec["_fizzled_parents"].list)]

\* The run returned an action and was a recovery from a fizzled parent.
FromFizzledParent ==
    /\ pc = "done"
    /\ "_job_info" \notin DOMAIN fw_spec
    /\ "_fizzled_parents" \in DOMAIN fw_spec

\* ... whose spec holds a restart counter.
ParentHasCounter ==
    /\ FromFizzledParent
    /\ "spec" \in DOMAIN SpecPrev.dict
    /\ task.restart_counter \in DOMAIN SpecPrev.dict["spec"].dict

ParentCount == SpecPrev.dict["spec"].dict[task.restart_counter].int

\* The run returned an action, was a recovery, and the previous job's record
\* holds no counter (no spec, or no value at the counter path).
PrevLacksCounter ==
    /\ pc = "done"
    /\ ("_job_info" \in DOMAIN fw_spec \/ "_fizzled_parents" \in DOMAIN fw_spec)
    /\ \/ "spec" \notin DOMAIN SpecPrev.dict
       \/ task.restart_counter \notin DOMAIN SpecPrev.dict["spec"].dict

RestartBuilt == result.restart_ids # <<>>
RecoveryBuilt == result.recover_fw # <<>>

\* Every node of the restart fragment holds v at the counter path.
RestartNodesHold(v) ==
    \A i \in SeqToSet(result.restart_ids) :
        /\ task.restart_counter \in DOMAIN result.detours[1].id_fw[i].spec
        /\ result.detours[1].id_fw[i].spec[task.restart_counter] = v

C2_AtMostMaxRestarts ==
    hist.pure => hist.restarts <= task.max_restarts.int

\* C3 (as claimed): a repeated recovery Firework spliced in during a failure
\* recovery, running after its restart fragment completed (the engine added
\* no record to its spec), classifies recover = false and builds neither a
\* restart fragment nor a further recovery Firework.
C3_ChainEndsOnSuccess ==
    (Finished /\ hist.after = "completed" /\ hist.prev_kind = "fizzled")
        => /\ ~result.recover
           /\ ~RestartBuilt
           /\ ~RecoveryBuilt

\* C4 (as claimed): the spec of the repeated recovery Firework is the current
\* spec without the keys of fw_spec_to_exclude.
C4_RecoverySpecExcludesKeys ==
    (pc = "done" /\ RecoveryBuilt) =>
        /\ \A k \in SeqToSet(task.fw_spec_to_exclude) : k \notin DOMAIN RecoverFw.spec
        /\ \A k \in (DOMAIN fw_spec) \ SeqToSet(task.fw_spec_to_exclude) :
              k \in DOMAIN RecoverFw.spec /\ RecoverFw.spec[k] = fw_spec[k]

\* C5 (as claimed): with neither _job_info nor _fizzled_parents in the spec,
\* run_task returns an action with recover = false, no restart fragment, no
\* recovery Firework, and with the detour and the addition whenever they are
\* configured, whatever the other parameters.
C5_NoRecordStillBuildsDetourAddition ==
    (Finished /\ "_job_info" \notin DOMAIN fw_spec
              /\ "_fizzled_parents" \notin DOMAIN fw_spec)
        => /\ pc = "done"
           /\ ~result.recover
           /\ ~RestartBuilt
           /\ ~RecoveryBuilt
           /\ IsDict(task.detour_wf) => Len(result.detours) = 1
           /\ IsDict(task.addition_wf) => Len(result.additions) = 1

\* C6: a _job_info record gives recover = true and the launch_dir of its last
\* entry, also when _fizzled_parents is present; otherwise a _fizzled_parents
\* record gives recover = true and the launch_dir of the last launch of the
\* last fizzled parent; otherwise recover = false.
C6_Classification ==
    Finished =>
        IF "_job_info" \in DOMAIN fw_spec
        THEN /\ result.recover
             /\ result.path_prefix = SpecPrev.dict["launch_dir"]
        ELSE IF "_fizzled_parents" \in DOMAIN fw_spec
        THEN /\ result.recover
             /\ result.path_prefix =
                   SpecPrev.dict["launches"].list[
                       Len(SpecPrev.dict["launches"].list)].dict["launch_dir"]
        ELSE ~result.recover

\* C6 witness: both records present, the job info's directory was taken.
C6_Witness ==
    /\ Finished
    /\ "_job_info" \in DOMAIN fw_spec
    /\ "_fizzled_parents" \in DOMAIN fw_spec
    /\ result.recover
    /\ result.path_prefix = StrV("dirJ1")

\* C7: whenever a restart fragment is built, every one of its nodes holds the
\* count of this attempt at the counter path; that count is c + 1 when the
\* fizzled parent's spec holds c.
C7_CounterInEveryRestartNode ==
    (pc = "done" /\ RestartBuilt) =>
        /\ RestartNodesHold(result.restart_count)
        /\ ParentHasCounter => result.restart_count = IntV(ParentCount + 1)

\* C7 witness: a two-node restart fragment (root -> leaf) was built.
C7_Witness ==
    /\ pc = "done"
    /\ Len(result.restart_ids) = 2
    /\ result.detours[1].links[result.restart_ids[1]] = <<result.restart_ids[2]>>
    /\ ParentHasCounter

\* C8 (as claimed): with counter c in the fizzled parent's spec and
\* c + 1 <= max_restarts, a restart fragment is built and the repeated
\* recovery Firework's spec holds c + 1 at the counter path.
C8_RecoverySpecHoldsIncrementedCount ==
    (ParentHasCounter /\ ParentCount + 1 <= task.max_restarts.int) =>
        /\ RestartBuilt
        /\ RecoveryBuilt
        /\ task.restart_counter \in DOMAIN RecoverFw.spec
        /\ RecoverFw.spec[task.restart_counter] = IntV(ParentCount + 1)

\* C8 (amended): with counter c in the fizzled parent's spec and
\* c + 1 <= max_restarts, a restart fragment is built whose nodes hold c + 1;
\* the repeated recovery Firework's spec holds at the counter path what the
\* current spec holds there (nothing when the current spec has no counter).
C8_RecoverySpecKeepsOwnCount ==
    (ParentHasCounter /\ ParentCount + 1 <= task.max_restarts.int) =>
        /\ RestartBuilt
        /\ RecoveryBuilt
        /\ RestartNodesHold(IntV(ParentCount + 1))
        /\ (task.restart_counter \in DOMAIN RecoverFw.spec)
              <=> (task.restart_counter \in DOMAIN fw_spec)
        /\ task.restart_counter \in DOMAIN fw_spec
              => RecoverFw.spec[task.restart_counter] = fw_spec[task.restart_counter]

\* C8 witness: the current spec holds a counter other than c + 1.
C8_Witness ==
    /\ ParentHasCounter
    /\ ParentCount + 1 <= task.max_restarts.int
    /\ RecoveryBuilt
    /\ task.restart_counter \in DOMAIN fw_spec
    /\ fw_spec[task.restart_counter] # IntV(ParentCount + 1)

\* C9 (as claimed): when no counter is found, the first restart fragment
\* carries 1.
C9_FirstCountIsOne ==
    (PrevLacksCounter /\ task.restart_counter \notin DOMAIN fw_spec /\ RestartBuilt)
        => RestartNodesHold(IntV(1))

\* C9 (amended): when neither the previous job's record nor the current spec
\* holds a counter, the count is taken as 0 and not incremented: the restart
\* fragment carries 0.
C9_FirstCountIsZero ==
    (PrevLacksCounter /\ task.restart_counter \notin DOMAIN fw_spec) =>
        /\ result.restart_count = IntV(0)
        /\ RestartBuilt => RestartNodesHold(IntV(0))

\* C9 witness: a restart fragment built with no counter anywhere.
C9_Witness ==
    /\ PrevLacksCounter
    /\ task.restart_counter \notin DOMAIN fw_spec
    /\ RestartBuilt

\* C10 (as claimed): when the previous job's record holds no counter and the
\* current spec holds c at the counter path, the count of this attempt is
\* c + 1.
C10_OwnSpecFallback ==
    (PrevLacksCounter /\ task.restart_counter \in DOMAIN fw_spec)
        => result.restart_count = IntV(fw_spec[task.restart_counter].int + 1)

\* The returned detour graph and the parts it was combined from.
Detour == result.detours[1]

RecoverId == result.recover_fw[1]

RestartIds == SeqToSet(result.restart_ids)

DetourOnlyIds == SeqToSet(Detour.fws) \ (RestartIds \cup SeqToSet(result.recover_fw))

Children(wf, i) == SeqToSet(wf.links[i])

\* The run returned an action holding a detour fragment and a restart fragment.
DetourAndRestartBuilt ==
    /\ pc = "done"
    /\ RestartBuilt
    /\ IsDict(task.detour_wf)

\* C11 (as claimed): when both a detour and a restart fragment exist, every
\* leaf of the detour fragment has every root of the restart fragment as a
\* child.
C11_RestartBelowDetour ==
    DetourAndRestartBuilt =>
        \A d \in DetourOnlyIds, r \in RestartIds :
            ( /\ Children(Detour, d) \cap DetourOnlyIds = {}
              /\ \A q \in RestartIds : r \notin Children(Detour, q) )
            => r \in Children(Detour, d)

\* C11 (amended): when both a detour and a restart fragment exist, the
\* combined fragment holds both side by side: the nodes of both keep their
\* identifiers, no detour node has a restart node as a child and no restart
\* node has a detour node as a child.
C11_RestartBesideDetour ==
    DetourAndRestartBuilt =>
        /\ DetourOnlyIds # {}
        /\ RestartIds \subseteq SeqToSet(Detour.fws)
        /\ DetourOnlyIds \cap RestartIds = {}
        /\ \A d \in DetourOnlyIds : Children(Detour, d) \cap RestartIds = {}
        /\ \A r \in RestartIds : Children(Detour, r) \cap DetourOnlyIds = {}

\* C11 witness: a detour node next to a two-node restart fragment.
C11_Witness ==
    /\ DetourAndRestartBuilt
    /\ Len(result.restart_ids) = 2
    /\ DetourOnlyIds = {-1}
    /\ RestartIds = {-2, -3}

\* The nodes of the returned detour graph that carry the recovery name.
RecoveryNodes ==
    IF result.detours = <<>> THEN {}
    ELSE {i \in 1..Len(Detour.fws) :
            Detour.id_fw[Detour.fws[i]].name = task.repeated_recover_fw_name}

\* C12: in a returned action there is exactly one repeated recovery Firework
\* if a restart fragment was built and none otherwise; it is a child of
\* exactly the nodes that were leaves of the combined fragment before, and
\* the only leaf of the returned detour graph.
C12_OneRecoveryNodeBelowAllLeaves ==
    pc = "done" =>
        /\ RecoveryBuilt <=> RestartBuilt
        /\ Cardinality(RecoveryNodes) = (IF RestartBuilt THEN 1 ELSE 0)
        /\ RestartBuilt =>
              /\ result.recover_fw = <<RecoverId>>
              /\ RecoveryNodes = {i \in 1..Len(Detour.fws) : Detour.fws[i] = RecoverId}
              /\ leaf_fw_ids(Detour) = <<RecoverId>>
              /\ \A i \in SeqToSet(Detour.fws) \ {RecoverId} :
                    /\ Children(Detour, i) \ {RecoverId} = {}
                          => RecoverId \in Children(Detour, i)
                    /\ RecoverId \in Children(Detour, i)
                          => Children(Detour, i) = {RecoverId}
        /\ (~result.recover
              \/ ~RestartAllowed(result.restart_count.int, task.max_restarts.int))
              => ~RecoveryBuilt /\ ~RestartBuilt

\* C12 witness: the recovery Firework below the detour node and below the
\* leaf of a two-node restart fragment.
C12_Witness ==
    /\ DetourAndRestartBuilt
    /\ RecoverId = -4
    /\ Children(Detour, -1) = {-4}
    /\ Children(Detour, -2) = {-3}
    /\ Children(Detour, -3) = {-4}

\* The returned addition graph.
Addition == result.additions[1]

\* The identifiers of all nodes of the returned action, in the order of the
\* graphs' node lists.
AllIds ==
    (IF result.detours = <<>> THEN <<>> ELSE Detour.fws)
    \o (IF result.additions = <<>> THEN <<>> ELSE Addition.fws)

\* C13: all nodes of a returned action (detour, restart and addition
\* fragments and the repeated recovery Firework) have negative identifiers,
\* and no identifier occurs twice.
C13_DistinctNegativeIds ==
    pc = "done" =>
        /\ \A i \in 1..Len(AllIds) : AllIds[i] < 0
        /\ \A i, j \in 1..Len(AllIds) : AllIds[i] = AllIds[j] => i = j

\* C13 witness: a detour node, a two-node restart fragment, the recovery
\* Firework and an addition node in one action.
C13_Witness ==
    /\ pc = "done"
    /\ Len(AllIds) = 5
    /\ Len(result.restart_ids) = 2
    /\ RecoveryBuilt
    /\ result.additions # <<>>

\* run_task ended (returned or raised) on a recovery whose restart files were
\* found and copied.
RecoveryStaged ==
    /\ Finished
    /\ Recover(fw_spec)
    /\ result.copied # <<>>

\* C14 (as claimed): when the count of a recovery is at least
\* max_restarts + 1, run_task returns an action without restart fragment,
\* whatever the spec declares and whether or not a detour is configured.
C14_MaxReachedReturnsNormally ==
    (RecoveryStaged /\ ~RestartAllowed(RestartCount(PrevJobInfo(fw_spec), fw_spec, task.restart_counter),
                     task.max_restarts.int))
        => /\ pc = "done"
           /\ ~RestartBuilt

\* C15 (as claimed): when restart_wf is None on a recovery whose count passes
\* the check, run_task returns an action without restart fragment.
C15_NoRestartWfReturnsNormally ==
    ( /\ RecoveryStaged
      /\ IsNone(task.restart_wf)
      /\ RestartAllowed(RestartCount(PrevJobInfo(fw_spec), fw_spec, task.restart_counter),
                     task.max_restarts.int) )
        => /\ pc = "done"
           /\ ~RestartBuilt

\* apply_mod_spec was called with a non-empty update_spec and propagate set.
UpdatePropagated ==
    /\ call.pc = "applied"
    /\ DOMAIN call.action.update_spec # {}
    /\ call.action.propagate

\* The spec of node i holds every entry of the update.
Updated(wf, i, upd) ==
    \A k \in DOMAIN upd :
        k \in DOMAIN wf.id_fw[i].spec /\ wf.id_fw[i].spec[k] = upd[k]

\* C16: apply_mod_spec with update_spec and propagate (and no mod_spec)
\* lists no identifier twice in updated_ids, and finishes normally.
C16_UpdateAtMostOncePerNode ==
    (UpdatePropagated /\ call.action.mod_spec = <<>>) =>
        /\ call.out.error = ""
        /\ \A i, j \in 1..Len(call.out.updated_ids) :
              call.out.updated_ids[i] = call.out.updated_ids[j] => i = j

\* C16 witness: on the diamond the leaf was updated, once.
C16_Witness ==
    /\ UpdatePropagated
    /\ call.action.mod_spec = <<>>
    /\ Len(call.wf.fws) = 4
    /\ Len(root_fw_ids(call.wf)) = 1
    /\ Len(leaf_fw_ids(call.wf)) = 1
    /\ call.out.updated_ids = leaf_fw_ids(call.wf)
    /\ Updated(call.out.wf, leaf_fw_ids(call.wf)[1], call.action.update_spec)

\* C17 (as claimed): with update_spec and propagate, every node of a fragment
\* that has an edge is updated, from the roots down to the leaves.
C17_UpdateReachesEveryNode ==
    (UpdatePropagated /\ root_fw_ids(call.wf) # leaf_fw_ids(call.wf)) =>
        \A i \in SeqToSet(call.wf.fws) :
            /\ i \in SeqToSet(call.out.updated_ids)
            /\ Updated(call.out.wf, i, call.action.update_spec)

\* C18 (as claimed): with mod_spec and propagate, apply_mod_spec finishes
\* normally and lists every node it visited once.
C18_ModSpecPropagates ==
    ( /\ call.pc = "applied"
      /\ call.action.mod_spec # <<>>
      /\ call.action.propagate
      /\ DOMAIN call.action.update_spec = {} )
        => /\ call.out.error = ""
           /\ \A i, j \in 1..Len(call.out.updated_ids) :
                 call.out.updated_ids[i] = call.out.updated_ids[j] => i = j

\* C19 (as claimed): after write_files_prev every root of the graph holds
\* under _files_prev the last match of every output key that has a match
\* when the source spec declares _files_out, and no spec has changed when it
\* declares none.
C19_FilesPrevOnEveryRoot ==
    call.pc = "written" =>
        /\ call.out.error = ""
        /\ IF "_files_out" \in DOMAIN call.spec
           THEN \A i \in SeqToSet(root_fw_ids(call.wf)) :
                   /\ "_files_prev" \in DOMAIN call.out.wf[1].id_fw[i].spec
                   /\ call.out.wf[1].id_fw[i].spec["_files_prev"] =
                         DictV(FilesPrev(call.spec["_files_out"].dict, call.env))
           ELSE call.out.wf = <<call.wf>>

\* C20: in a returned action the addition graph and the detour graph share
\* no node, no edge leads from one into the other, and the restart fragment
\* and the repeated recovery Firework are in the detour graph only.
C20_AdditionApartFromDetour ==
    (pc = "done" /\ result.additions # <<>> /\ result.detours # <<>>) =>
        /\ SeqToSet(Addition.fws) \cap SeqToSet(Detour.fws) = {}
        /\ DOMAIN Addition.links = SeqToSet(Addition.fws)
        /\ DOMAIN Detour.links = SeqToSet(Detour.fws)
        /\ \A a \in SeqToSet(Addition.fws) :
              Children(Addition, a) \subseteq SeqToSet(Addition.fws)
        /\ \A d \in SeqToSet(Detour.fws) :
              Children(Detour, d) \subseteq SeqToSet(Detour.fws)
        /\ RestartIds \cup SeqToSet(result.recover_fw) \subseteq SeqToSet(Detour.fws)
        /\ \A a \in SeqToSet(Addition.fws) :
              Addition.id_fw[a].name = task.addition_wf.dict["name"].str

\* C20 witness: an addition node returned next to a detour graph that ends in
\* the repeated recovery Firework.
C20_Witness ==
    /\ pc = "done"
    /\ result.additions # <<>>
    /\ result.detours # <<>>
    /\ RecoveryBuilt
    /\ RecoverId = -4
    /\ Addition.fws = <<-5>>
    /\ Children(Addition, -5) = {}


\* ------------------------------------------------------ dict_merge properties

Merged == call.pc = "merged"

MergeResult == call.out.result

\* C21 (as claimed): a dict_merge call returns a mapping from which every
\* top-level key marked True in exclusions is gone, whatever value the base
\* mapping held for it, unless the overlay supplies the key and add_keys is
\* true.
C21_ExcludedKeysAbsent ==
    Merged =>
        /\ ~IsError(MergeResult)
        /\ \A k \in DOMAIN call.exclusions :
              (/\ call.exclusions[k] = TrueV
               /\ ~(k \in DOMAIN call.merge_dct /\ call.add_keys))
              => k \notin DOMAIN MergeResult.dict

DefaultExclusions == call.exclusions = EmptyDict

DefaultMergeExclusions == call.merge_exclusions = EmptyDict

\* C22: with merge_exclusions = {k: True} (exclusions left at its default) the
\* result holds for k exactly what the base mapping held: the same value when
\* the base has k, no entry when it has not, whatever the overlay holds.
C22_MergeExcludedKeyUntouched ==
    (Merged /\ DefaultExclusions) =>
        \A k \in DOMAIN call.merge_exclusions :
            call.merge_exclusions[k] = TrueV =>
                /\ ~IsError(MergeResult)
                /\ k \in DOMAIN MergeResult.dict <=> k \in DOMAIN call.dct
                /\ k \in DOMAIN call.dct => MergeResult.dict[k] = call.dct[k]

C22_Witness ==
    /\ Merged
    /\ DefaultExclusions
    /\ call.merge_exclusions = "k" :> TrueV
    /\ "k" \in DOMAIN call.dct
    /\ "k" \in DOMAIN call.merge_dct
    /\ call.merge_dct["k"] # call.dct["k"]
    /\ "j" \in DOMAIN call.merge_dct
    /\ MergeResult.dict["j"] = call.merge_dct["j"]

RECURSIVE NoNewKeys(_, _, _)
\* r holds no key that b has and a lacks, at this level or below; below a key
\* where a holds no mapping, every key of b counts as absent from a.
NoNewKeys(r, a, b) ==
    \A k \in DOMAIN r :
        /\ ~(k \in DOMAIN b /\ k \notin DOMAIN a)
        /\ (k \in DOMAIN b /\ IsDict(r[k]) /\ IsDict(b[k]))
             => NoNewKeys(r[k].dict, (IF IsDict(a[k]) THEN a[k].dict ELSE EmptyDict), b[k].dict)

RECURSIVE NoNewKeysBetweenMappings(_, _, _)
\* The same, descending only where a and b both hold a mapping.
NoNewKeysBetweenMappings(r, a, b) ==
    \A k \in DOMAIN r :
        /\ ~(k \in DOMAIN b /\ k \notin DOMAIN a)
        /\ (k \in DOMAIN b /\ IsDict(r[k]) /\ IsDict(b[k]) /\ IsDict(a[k]))
             => NoNewKeysBetweenMappings(r[k].dict, a[k].dict, b[k].dict)

AddKeysOff ==
    Merged /\ ~call.add_keys /\ DefaultExclusions /\ DefaultMergeExclusions

\* C23 (as claimed): with add_keys = False the result holds, at no nesting
\* level, a key that the overlay has and the base lacks at that level.
C23_NoNewKeysAtAnyLevel ==
    AddKeysOff =>
        /\ ~IsError(MergeResult)
        /\ NoNewKeys(MergeResult.dict, call.dct, call.merge_dct)

\* C23 (amended): with add_keys = False the result holds no key that the
\* overlay has and the base lacks, at the top level and at every level where
\* base and overlay both hold a mapping.
C23_NoNewKeysBetweenMappings ==
    AddKeysOff =>
        /\ ~IsError(MergeResult)
        /\ NoNewKeysBetweenMappings(MergeResult.dict, call.dct, call.merge_dct)

C23_Witness ==
    /\ AddKeysOff
    /\ "j" \in DOMAIN call.merge_dct
    /\ "j" \notin DOMAIN call.dct
    /\ "k" \in DOMAIN call.dct
    /\ "k" \in DOMAIN call.merge_dct
    /\ IsDict(call.dct["k"])
    /\ IsDict(call.merge_dct["k"])
    /\ "b" \in DOMAIN call.merge_dct["k"].dict
    /\ "b" \notin DOMAIN call.dct["k"].dict
    /\ MergeResult.dict["k"] # call.dct["k"]

\* C24: merging a mapping with itself under the default options gives back
\* an equal mapping.
C24_MergeWithItself ==
    (/\ Merged
     /\ call.add_keys
     /\ DefaultExclusions
     /\ DefaultMergeExclusions
     /\ call.dct = call.merge_dct)
    => MergeResult = DictV(call.dct)

C24_Witness ==
    /\ Merged
    /\ call.add_keys
    /\ DefaultExclusions
    /\ DefaultMergeExclusions
    /\ call.dct = call.merge_dct
    /\ DOMAIN call.dct = {"k", "j"}
    /\ IsDict(call.dct["k"])
    /\ "a" \in DOMAIN call.dct["k"].dict
    /\ IsDict(call.dct["k"].dict["a"])
    /\ IsList(call.dct["j"])

DescribedNodes ==
    IF "spec" \in DOMAIN call.obj.dict THEN <<call.obj.dict>>
    ELSE [p \in 1..Len(call.obj.dict["fws"].list) |-> call.obj.dict["fws"].list[p].dict]

\* The spec the built node at position p carries.
BuiltSpec(p) == call.out.wf.id_fw[call.out.wf.fws[p]].spec

\* C26 (as claimed): with superposition enabled and the parent's spec at
\* hand, every node of the fragment gets a spec in which the node's own value
\* wins for each key both specs hold with non-mapping values, and in which
\* every key that only the parent's spec holds, and that is not excluded, is
\* inherited.
C26_SuperposedSpecs ==
    (call.pc = "built" /\ Truthy(call.base_spec)) =>
        /\ call.out.error = ""
        /\ \A p \in 1..Len(DescribedNodes) :
              \A k \in DOMAIN call.base_spec.dict :
                  LET own == DescribedNodes[p]["spec"].dict
                      parent == call.base_spec.dict
                  IN /\ (/\ k \in DOMAIN own
                          /\ ~IsDict(own[k])
                          /\ ~IsDict(parent[k]))
                         => BuiltSpec(p)[k] = own[k]
                     /\ (k \notin DOMAIN own /\ k \notin DOMAIN call.exclusions.dict)
                         => (k \in DOMAIN BuiltSpec(p) /\ BuiltSpec(p)[k] = parent[k])

\* The id the description gives the node at position p.
DescribedId(p) == DescribedNodes[p]["fw_id"].int

\* The children the description lists for the node at position p.
DescribedLinks(p) ==
    LET links == call.obj.dict["links"].dict
        k == KeyOfId(DescribedId(p))
    IN IF k \in DOMAIN links
       THEN [j \in 1..Len(links[k].list) |-> links[k].list[j].int]
       ELSE <<>>

\* C30: for a multi-node description every described id is replaced by a
\* fresh negative id taken from the counter, and the built Workflow is the
\* described graph under that renaming: the same nodes, and an edge between
\* two built nodes exactly where the description has one, also when described
\* ids coincide with ids the counter hands out during the call.
C30_RemappedIsomorphic ==
    (call.pc = "built" /\ "fws" \in DOMAIN call.obj.dict /\ call.out.error = "") =>
        LET n == Len(DescribedNodes)
            wf == call.out.wf
        IN /\ Len(wf.fws) = n
           /\ \A p \in 1..n : wf.fws[p] = call.next_id - (p - 1) /\ wf.fws[p] < 0
           /\ DOMAIN wf.id_fw = SeqToSet(wf.fws)
           /\ DOMAIN wf.links = SeqToSet(wf.fws)
           /\ \A p \in 1..n :
                 /\ wf.id_fw[wf.fws[p]] =
                        FireworkFromDict(call.out.obj.dict["fws"].list[p].dict)
                 /\ wf.links[wf.fws[p]] =
                        [j \in 1..Len(DescribedLinks(p)) |->
                             wf.fws[CHOOSE q \in 1..n : DescribedId(q) = DescribedLinks(p)[j]]]

C30_Witness ==
    /\ call.pc = "built"
    /\ "fws" \in DOMAIN call.obj.dict
    /\ call.out.error = ""
    /\ \E p, q \in 1..Len(DescribedNodes) :
          /\ p # q
          /\ DescribedId(p) = call.out.wf.fws[q]
          /\ DescribedId(q) \in SeqToSet(call.out.wf.fws)
          /\ Len(DescribedLinks(p)) > 0
          /\ Len(DescribedLinks(q)) > 0

\* ------------------------------------------------- file handling properties

\* run_task returned or raised after classifying the run as a recovery.
Recovered == Finished /\ result.recover

\* What the restart pattern matched in the directory the run met.
RestartMatches == Glob(hist.env, "*.restart[0-9]")

\* The restart files the run copied (other files go to the current directory
\* under the name "cwd").
RestartCopies == SelectSeq(result.copied, LAMBDA pr : pr[2] # "cwd")

\* The other files the run copied.
OtherCopies == SelectSeq(result.copied, LAMBDA pr : pr[2] = "cwd")

\* other_glob_patterns matches a file whose copy fails.
OtherCopyFails ==
    /\ ~IsNone(task.other_glob_patterns)
    /\ \E f \in SeqToSet(OtherFiles(hist.env, task.other_glob_patterns)) :
          f \in hist.env.copy_fail

\* C27: of the files a restart pattern matches, at most one is copied, and it
\* is one with the greatest modification time; it is copied whenever there is
\* a match and no copy fails, be it the newest of several or the only one.
C27_MostRecentRestartFile ==
    Recovered =>
        /\ Len(RestartCopies) <= 1
        /\ \A i \in 1..Len(RestartCopies) :
              /\ RestartCopies[i][1] \in SeqToSet(RestartMatches)
              /\ \A f \in SeqToSet(RestartMatches) :
                    hist.env.mtime[f] <= hist.env.mtime[RestartCopies[i][1]]
        /\ (Len(RestartMatches) >= 1 /\ hist.env.copy_fail = {})
              => Len(RestartCopies) = 1

C27_Witness ==
    /\ Recovered
    /\ RestartMatches = <<"job.restart7", "job.restart3">>
    /\ hist.env.mtime["job.restart7"] < hist.env.mtime["job.restart3"]
    /\ RestartCopies = <<<<"job.restart3", CurDir>>>>
    /\ pc = "done"

\* The same run in a directory that holds one restart file.
RunWithRestartFile ==
    run_task(task, fw_spec,
             Env(<<"job.restart3">>, "job.restart3", hist.env.copy_fail))

\* C28: when a recovery finds no match for a restart pattern, the task raises
\* and returns no action if fizzle_on_no_restart_file is set; otherwise the
\* pattern is passed over, no restart file is copied, and the run goes on as
\* it would with a restart file at hand: the same restart fragment and
\* repeated recovery Firework under the same restart-count check.
C28_NoRestartFile ==
    (Recovered /\ Len(RestartMatches) = 0 /\ ~(OtherCopyFails /\ ~task.ignore_errors)) =>
        /\ task.fizzle_on_no_restart_file =>
              /\ pc = "raised"
              /\ result.error = "ValueError"
              /\ result.detours = <<>> /\ result.additions = <<>>
        /\ ~task.fizzle_on_no_restart_file =>
              /\ RestartCopies = <<>>
              /\ result.error = RunWithRestartFile.error
              /\ result.restart_ids = RunWithRestartFile.restart_ids
              /\ result.recover_fw = RunWithRestartFile.recover_fw
              /\ result.detours = RunWithRestartFile.detours
              /\ result.additions = RunWithRestartFile.additions

C28_Witness ==
    /\ Recovered
    /\ Len(RestartMatches) = 0
    /\ ~task.fizzle_on_no_restart_file
    /\ pc = "done"
    /\ RestartBuilt
    /\ RecoveryBuilt
    /\ hist.restarts >= 2

\* C29: a failing copy of a file matched by other_glob_patterns is swallowed
\* when ignore_errors is true, the remaining other files and the restart files
\* being copied all the same, and raises when ignore_errors is false; a
\* failing copy of a restart file raises whatever ignore_errors says.
C29_CopyErrorPolicy ==
    Recovered =>
        /\ (OtherCopyFails /\ task.ignore_errors) =>
              /\ OtherCopies = <<<<"b.log", "cwd">>>>
              /\ Len(RestartMatches) >= 1 => Len(RestartCopies) = 1
              /\ result.error # "CopyError"
        /\ (OtherCopyFails /\ ~task.ignore_errors) =>
              /\ pc = "raised"
              /\ result.error = "CopyError"
              /\ result.copied = <<>>
        /\ (/\ ~(OtherCopyFails /\ ~task.ignore_errors)
             /\ Len(RestartMatches) >= 1
             /\ MostRecent(hist.env, RestartMatches) \in hist.env.copy_fail) =>
              /\ pc = "raised"
              /\ result.error = "CopyError"
              /\ RestartCopies = <<>>

C29_Witness ==
    /\ Recovered
    /\ OtherCopyFails
    /\ task.ignore_errors
    /\ OtherCopies = <<<<"b.log", "cwd">>>>
    /\ RestartCopies = <<<<"job.restart7", CurDir>>>>
    /\ pc = "done"
    /\ RestartBuilt

\* ------------------------------------------- the repeated recovery Firework

\* C31 (as claimed): a run_task call that builds the repeated recovery
\* Firework hands it the task with the restart, detour and addition
\* descriptions the call began with, also under superposition.
C31_TaskDescriptionsUnchanged ==
    [][(pc = "ready" /\ pc' = "done" /\ result'.recover_fw # <<>>)
         => /\ task'.restart_wf = task.restart_wf
            /\ task'.detour_wf = task.detour_wf
            /\ task'.addition_wf = task.addition_wf]_vars

\* C32 (as claimed): in a chain of recoveries that are each triggered by a
\* _job_info record, the restart fragments carry a counter that grows by one
\* per fragment, and no more than max_restarts + 1 fragments are spliced in.
C32_JobInfoChainBounded ==
    (pc = "done" /\ Kind(fw_spec) = "job_info") =>
        /\ hist.restarts <= task.max_restarts.int + 1
        /\ RestartBuilt => RestartNodesHold(IntV(hist.restarts - 1))

\* ------------------------------------------------- file staging properties

\* The destinations as the task holds them, as a sequence of strings (one
\* entry for a plain string).
GivenDests ==
    LET d == call.task.restart_file_dests
    IN IF IsList(d) THEN [i \in 1..Len(d.list) |-> d.list[i].str]
       ELSE IF IsNone(d) THEN <<>> ELSE <<d.str>>

\* C33: after normalisation there is one destination per restart pattern:
\* the current directory for each when none was given (None, "" or []), the
\* single destination for each when one was given, the list as given when it
\* has several entries and as many as there are patterns, and the current
\* directory for each when it has several entries and another length.
C33_OneDestPerPattern ==
    call.pc = "normalised" =>
        LET n == Len(CallPatterns)
            given == GivenDests
        IN /\ Len(call.out) = n
           /\ ~Truthy(call.task.restart_file_dests)
                 => \A i \in 1..n : call.out[i] = CurDir
           /\ (Truthy(call.task.restart_file_dests) /\ Len(given) = 1)
                 => \A i \in 1..n : call.out[i] = given[1]
           /\ (Len(given) > 1 /\ Len(given) = n) => call.out = given
           /\ (Len(given) > 1 /\ Len(given) # n)
                 => \A i \in 1..n : call.out[i] = CurDir

C33_Witness ==
    /\ call.pc = "normalised"
    /\ Len(GivenDests) = 3
    /\ Len(CallPatterns) = 2
    /\ call.out = <<CurDir, CurDir>>

Staged == call.pc = "staged"

\* The other files a staging call copied into the current directory.
StagedOtherCopies == SelectSeq(call.out.copied, LAMBDA pr : pr[2] = "cwd")

\* C34 (as claimed): with other_glob_patterns a plain string, the staging
\* raises nothing on its account and the files copied into the current
\* directory are the matches of that pattern (those whose copy does not
\* fail, the failures being ignored).
C34_StringIsOnePattern ==
    (/\ Staged
     /\ DOMAIN call.task.other_glob_patterns = {"str"}
     /\ call.task.ignore_errors)
    => StagedOtherCopies =
          [i \in 1..Len(SelectSeq(Glob(call.env, call.task.other_glob_patterns.str),
                                   LAMBDA f : f \notin call.env.copy_fail)) |->
             <<SelectSeq(Glob(call.env, call.task.other_glob_patterns.str),
                         LAMBDA f : f \notin call.env.copy_fail)[i], "cwd">>]

\* ------------------------------------------------- dict_merge: type mismatch

\* Base and overlay both hold k, one of them a mapping and the other not, and
\* merge_exclusions does not hold k.
Mismatch(k) ==
    /\ k \in DOMAIN call.dct
    /\ k \in DOMAIN call.merge_dct
    /\ IsDict(call.dct[k]) # IsDict(call.merge_dct[k])
    /\ k \notin DOMAIN call.merge_exclusions

\* C35 (as claimed): for every key with such a mismatch the result holds the
\* overlay's value, under every combination of options.
C35_MismatchTakesOverlay ==
    Merged =>
        \A k \in DOMAIN call.dct \cap DOMAIN call.merge_dct :
            Mismatch(k) =>
                /\ ~IsError(MergeResult)
                /\ k \in DOMAIN MergeResult.dict
                /\ MergeResult.dict[k] = call.merge_dct[k]

\* C35 (amended): with exclusions at its default, for every key with such a
\* mismatch the result holds the overlay's value, whatever add_keys and the
\* merge_exclusions of other keys are.
C35_MismatchTakesOverlayDefaultExclusions ==
    (Merged /\ DefaultExclusions) =>
        \A k \in DOMAIN call.dct \cap DOMAIN call.merge_dct :
            Mismatch(k) =>
                /\ ~IsError(MergeResult)
                /\ k \in DOMAIN MergeResult.dict
                /\ MergeResult.dict[k] = call.merge_dct[k]

C35_Witness ==
    /\ Merged
    /\ DefaultExclusions
    /\ ~call.add_keys
    /\ call.merge_exclusions = "k" :> TrueV
    /\ "k" \in DOMAIN call.dct
    /\ "k" \in DOMAIN call.merge_dct
    /\ Mismatch("j")
    /\ IsDict(call.dct["j"])
    /\ call.dct["j"] # DictV(EmptyDict)
    /\ MergeResult.dict["j"] = call.merge_dct["j"]
    /\ MergeResult.dict["k"] = call.dct["k"]

\* ------------------------------------------ file staging: order of the steps

\* C36: when the staging fails because a restart pattern has no match, no
\* restart file has been copied, whichever patterns did match, while the
\* files matched by other_glob_patterns have been copied into the current
\* directory.
C36_NoRestartCopyBeforeAllMatched ==
    (Staged /\ call.out.error = "ValueError") =>
        /\ call.task.fizzle_on_no_restart_file
        /\ \E i \in 1..Len(CallPatterns) : Glob(call.env, CallPatterns[i]) = <<>>
        /\ SelectSeq(call.out.copied, LAMBDA pr : pr[2] # "cwd") = <<>>
        /\ LET copyable == SelectSeq(OtherFiles(call.env, call.task.other_glob_patterns),
                                     LAMBDA f : f \notin call.env.copy_fail)
           IN StagedOtherCopies =
                 [i \in 1..Len(copyable) |-> <<copyable[i], "cwd">>]

C36_Witness ==
    /\ Staged
    /\ call.out.error = "ValueError"
    /\ Len(CallPatterns) = 2
    /\ Glob(call.env, CallPatterns[1]) # <<>>
    /\ Glob(call.env, CallPatterns[2]) = <<>>
    /\ IsList(call.task.other_glob_patterns)
    /\ StagedOtherCopies = <<<<"a.log", "cwd">>, <<"b.log", "cwd">>>>

\* ------------------------------------------------ _files_prev without recovery

\* Some node of a returned detour fragment holds _files_prev.
DetourHoldsFilesPrev ==
    \E j \in 1..Len(result.detours) :
        \E i \in DOMAIN result.detours[j].id_fw :
            "_files_prev" \in DOMAIN result.detours[j].id_fw[i].spec

\* C37: on the branch without recovery the detour fragment never gets
\* _files_prev, and is returned as built when there is no addition, also
\* when the spec declares _files_out; an addition fragment is handed to
\* write_files_prev all the same, so that the run ends as that call does.
C37_NoFilesPrevOnDetourWithoutRecovery ==
    (Finished /\ ~result.recover) =>
        /\ ~DetourHoldsFilesPrev
        /\ (~task.superpose_detour_on_parent_fw_spec /\ ~task.superpose_addition_on_parent_fw_spec
            /\ IsDict(task.detour_wf) /\ ~IsDict(task.addition_wf))
              => (pc = "done" /\ Len(result.detours) = 1)
        /\ (~task.superpose_detour_on_parent_fw_spec /\ ~task.superpose_addition_on_parent_fw_spec
            /\ IsDict(task.addition_wf))
              => result.error = write_files_prev(<<NoWf>>, fw_spec, hist.env).error

C37_Witness ==
    /\ Finished
    /\ ~result.recover
    /\ Truthy(GetOrNone(fw_spec, "_files_out"))
    /\ pc = "done"
    /\ Len(result.detours) = 1
    /\ ~DetourHoldsFilesPrev

\* --------------------------------------------- restart count without counter

\* The run was a recovery and the previous job's record holds no counter: it
\* has no 'spec', or its spec has nothing at the counter path.
RecordLacksCounter ==
    /\ Recovered
    /\ \/ "spec" \notin DOMAIN SpecPrev.dict
       \/ task.restart_counter \notin DOMAIN SpecPrev.dict["spec"].dict

============================================================================
